---------------------------- MODULE Spec2Model ----------------------------
(***************************************************************************)
(* Model of the contact extraction code of AI-Literacy-Lead-Generator:     *)
(* the email extractors of enhanced_scraper.py, lead_generator_v2.py and   *)
(* lead_generator.py, the contact deduplication of enhanced_scraper.py and *)
(* the name/title extraction that feeds it.                                *)
(*                                                                         *)
(* A Python str is a sequence of one-character strings, so that regular    *)
(* expressions, lower(), strip(), split(), replace() and sorted() are      *)
(* computed character by character, as the interpreter computes them.      *)
(***************************************************************************)
EXTENDS Integers, Sequences, FiniteSets, TLC

(***************************************************************************)
(* Characters and the str methods the code uses                            *)
(***************************************************************************)
UPPER == <<"A","B","C","D","E","F","G","H","I","J","K","L","M","N","O","P","Q","R","S","T","U","V","W","X","Y","Z">>
LOWER == <<"a","b","c","d","e","f","g","h","i","j","k","l","m","n","o","p","q","r","s","t","u","v","w","x","y","z">>
DIGITS == <<"0","1","2","3","4","5","6","7","8","9">>

Range(s) == {s[i] : i \in 1..Len(s)}

IndexOf(s, c) == CHOOSE i \in 1..Len(s) : s[i] = c

UpperSet == Range(UPPER)
LowerSet == Range(LOWER)
DigitSet == Range(DIGITS)
\* \s of re and the characters str.strip() / str.split() remove
SpaceSet == {" ", "\t", "\n", "\r", "\f"}
PunctSet == {"%", "'", "+", ",", "-", ".", "/", ":", "=", "?", "@", "_", "|"}

IsUpper(c) == c \in UpperSet
IsLower(c) == c \in LowerSet
IsDigit(c) == c \in DigitSet
IsAlpha(c) == c \in UpperSet \/ c \in LowerSet
IsSpace(c) == c \in SpaceSet
\* \w of re (ASCII part)
IsWord(c) == IsAlpha(c) \/ IsDigit(c) \/ c = "_"

\* ord(c): the code point, which orders str comparison
Ord ==
    [c \in UpperSet \cup LowerSet \cup DigitSet \cup SpaceSet \cup PunctSet |->
        IF c \in UpperSet THEN 64 + IndexOf(UPPER, c)
        ELSE IF c \in LowerSet THEN 96 + IndexOf(LOWER, c)
        ELSE IF c \in DigitSet THEN 47 + IndexOf(DIGITS, c)
        ELSE CASE c = "\t" -> 9 [] c = "\n" -> 10 [] c = "\f" -> 12 [] c = "\r" -> 13
               [] c = " " -> 32 [] c = "%" -> 37 [] c = "'" -> 39 [] c = "+" -> 43
               [] c = "," -> 44 [] c = "-" -> 45 [] c = "." -> 46 [] c = "/" -> 47
               [] c = ":" -> 58 [] c = "=" -> 61 [] c = "?" -> 63 [] c = "@" -> 64
               [] c = "_" -> 95 [] c = "|" -> 124]

\* str.lower() and str.upper() of the letters
ToLower == [c \in UpperSet |-> LOWER[IndexOf(UPPER, c)]]
ToUpper == [c \in LowerSet |-> UPPER[IndexOf(LOWER, c)]]

LowerChar(c) == IF c \in UpperSet THEN ToLower[c] ELSE c
UpperChar(c) == IF c \in LowerSet THEN ToUpper[c] ELSE c

\* str.lower()
StrLower(s) == [i \in 1..Len(s) |-> LowerChar(s[i])]

\* sub == s[i : i + len(sub)]
MatchesAt(s, sub, i) ==
    /\ i >= 1
    /\ i + Len(sub) - 1 <= Len(s)
    /\ \A k \in 1..Len(sub) : s[i + k - 1] = sub[k]

\* sub in s
Contains(s, sub) == \E i \in 1..(Len(s) + 1) : MatchesAt(s, sub, i)

\* str < str: lexicographic by code point, a proper prefix first
StrLess(a, b) ==
    \/ /\ Len(a) < Len(b)
       /\ \A k \in 1..Len(a) : a[k] = b[k]
    \/ \E i \in 1..Len(a) :
          /\ i <= Len(b)
          /\ \A k \in 1..(i - 1) : a[k] = b[k]
          /\ Ord[a[i]] < Ord[b[i]]

\* s.strip()
Strip(s) ==
    LET keep == {i \in 1..Len(s) : ~IsSpace(s[i])}
    IN  IF keep = {} THEN <<>>
        ELSE LET lo == CHOOSE i \in keep : \A j \in keep : i <= j
                 hi == CHOOSE i \in keep : \A j \in keep : i >= j
             IN  SubSeq(s, lo, hi)

\* s.replace(old, ""): every non-overlapping occurrence, leftmost first
RECURSIVE RemoveAllFrom(_, _, _)
RemoveAllFrom(s, old, i) ==
    IF i > Len(s) THEN <<>>
    ELSE IF MatchesAt(s, old, i) THEN RemoveAllFrom(s, old, i + Len(old))
    ELSE <<s[i]>> \o RemoveAllFrom(s, old, i + 1)

RemoveAll(s, old) == RemoveAllFrom(s, old, 1)

\* s.split(sep)[0]
BeforeFirst(s, sep) ==
    IF \E i \in 1..Len(s) : s[i] = sep
    THEN LET p == CHOOSE i \in 1..Len(s) :
                    /\ s[i] = sep
                    /\ \A j \in 1..(i - 1) : s[j] # sep
         IN  SubSeq(s, 1, p - 1)
    ELSE s

\* s.split(sep): the fields between the separators, empty fields kept
RECURSIVE SplitOn(_, _)
SplitOn(s, sep) ==
    IF \E i \in 1..Len(s) : s[i] = sep
    THEN LET p == Len(BeforeFirst(s, sep)) + 1
         IN  <<SubSeq(s, 1, p - 1)>> \o SplitOn(SubSeq(s, p + 1, Len(s)), sep)
    ELSE <<s>>

\* \b of re at the position before s[i]
WordBoundary(s, i) ==
    LET before == i > 1 /\ i - 1 <= Len(s) /\ IsWord(s[i - 1])
        after  == i >= 1 /\ i <= Len(s) /\ IsWord(s[i])
    IN  before # after

\* the end (exclusive) of the longest run of characters of class C from i
RunEnd(s, i, C(_)) ==
    LET end[j \in i..(Len(s) + 1)] ==
            IF j > Len(s) THEN Len(s) + 1
            ELSE IF C(s[j]) THEN end[j + 1]
            ELSE j
    IN  IF i > Len(s) THEN Len(s) + 1 ELSE end[i]

Max(S) == CHOOSE x \in S : \A y \in S : x >= y
Min(S) == CHOOSE x \in S : \A y \in S : x <= y

\* the elements of a sequence, and a sequence's distinct elements
SeqToSet(q) == {q[i] : i \in 1..Len(q)}

(***************************************************************************)
(* The email pattern                                                       *)
(*   \b[A-Za-z0-9._%+-]+@[A-Za-z0-9.-]+\.[A-Z|a-z]{2,}\b                   *)
(***************************************************************************)
IsLocalChar(c) == IsAlpha(c) \/ IsDigit(c) \/ c \in {".", "_", "%", "+", "-"}
IsDomainChar(c) == IsAlpha(c) \/ IsDigit(c) \/ c \in {".", "-"}
\* the class [A-Z|a-z] of the compiled pattern: the bar is a member of it
IsTldChar(c) == IsAlpha(c) \/ c = "|"

\* The match of the pattern that starts at i: its last index, or 0.  The
\* quantifiers are greedy: the longest domain run is tried first, and for it
\* the longest TLD run.
EmailMatchEnd(s, i) ==
    IF ~(i <= Len(s) /\ WordBoundary(s, i) /\ IsLocalChar(s[i])) THEN 0
    ELSE
      LET at == RunEnd(s, i, IsLocalChar)
      IN  IF ~(at <= Len(s) /\ s[at] = "@") THEN 0
          ELSE
            LET dEnd == RunEnd(s, at + 1, IsDomainChar)
                \* q: the index of the "." that ends the domain labels
                ends(q) == {e \in (q + 2)..(RunEnd(s, q + 1, IsTldChar) - 1) :
                               WordBoundary(s, e + 1)}
                dots == {q \in (at + 2)..(dEnd - 1) :
                               s[q] = "." /\ ends(q) # {}}
            IN  IF dots = {} THEN 0 ELSE Max(ends(Max(dots)))

\* email_pattern.findall(text): leftmost non-overlapping matches from pos
RECURSIVE EmailFindAllFrom(_, _)
EmailFindAllFrom(s, pos) ==
    LET starts == {i \in pos..Len(s) : EmailMatchEnd(s, i) # 0}
    IN  IF starts = {} THEN <<>>
        ELSE LET i == Min(starts)
                 e == EmailMatchEnd(s, i)
             IN  <<SubSeq(s, i, e)>> \o EmailFindAllFrom(s, e + 1)

EmailFindAll(s) == EmailFindAllFrom(s, 1)

\* sorted(list(S)) of a set of str
RECURSIVE Sorted(_)
Sorted(S) ==
    IF S = {} THEN <<>>
    ELSE LET m == CHOOSE x \in S : \A y \in S \ {x} : StrLess(x, y)
         IN  <<m>> \o Sorted(S \ {m})


(***************************************************************************)
(* The parsed page.  soup is None, or the page's anchors (their href, in   *)
(* document order) and its block containers (see the contact extraction).  *)
(***************************************************************************)
None == [present |-> FALSE, anchors |-> <<>>, containers |-> <<>>]
Soup(anchors, containers) ==
    [present |-> TRUE, anchors |-> anchors, containers |-> containers]

\* re.compile(r'^mailto:', re.I) searched in the href
IsMailtoHref(href) == MatchesAt(StrLower(href), <<"m","a","i","l","t","o",":">>, 1)

\* href.replace('mailto:', '').split('?')[0].strip()
MailtoAddress(href) == Strip(BeforeFirst(RemoveAll(href, <<"m","a","i","l","t","o",":">>), "?"))

\* the addresses the mailto loop adds: those that contain an '@'
MailtoEmails(s) ==
    {MailtoAddress(s.anchors[i]) : i \in {k \in 1..Len(s.anchors) :
        /\ IsMailtoHref(s.anchors[k])
        /\ Contains(MailtoAddress(s.anchors[k]), <<"@">>)}}

\* any(blocked in e.lower() for blocked in blacklist)
Blocked(e, blacklist) == \E b \in blacklist : Contains(StrLower(e), b)

(***************************************************************************)
(* enhanced_scraper.ContactExtractor                                       *)
(***************************************************************************)
EMAIL_BLACKLIST ==
    {<<"e","x","a","m","p","l","e",".","c","o","m">>, <<"d","o","m","a","i","n",".","c","o","m">>, <<"e","m","a","i","l",".","c","o","m">>, <<"t","e","s","t",".","c","o","m">>,
     <<"y","o","u","r","c","o","m","p","a","n","y",".","c","o","m">>, <<"c","o","m","p","a","n","y",".","c","o","m">>, <<"y","o","u","r","d","o","m","a","i","n",".","c","o","m">>,
     <<"s","a","m","p","l","e",".","c","o","m">>, <<"p","l","a","c","e","h","o","l","d","e","r",".","c","o","m">>, <<"n","o","r","e","p","l","y">>, <<"n","o","-","r","e","p","l","y">>,
     <<"d","o","n","o","t","r","e","p","l","y">>, <<"m","a","i","l","e","r","-","d","a","e","m","o","n">>, <<"p","o","s","t","m","a","s","t","e","r">>}

\* the set `emails` before the filter
ES_found_emails(t, s) ==
    SeqToSet(EmailFindAll(t)) \cup (IF s.present THEN MailtoEmails(s) ELSE {})

ES_extract_emails(t, s) ==
    Sorted({e \in ES_found_emails(t, s) :
               ~Blocked(e, EMAIL_BLACKLIST) /\ Len(e) > 5})

(***************************************************************************)
(* lead_generator_v2.ContactExtractor                                      *)
(***************************************************************************)
email_blacklist ==
    {<<"e","x","a","m","p","l","e",".","c","o","m">>, <<"d","o","m","a","i","n",".","c","o","m">>, <<"t","e","s","t",".","c","o","m">>, <<"n","o","r","e","p","l","y">>,
     <<"n","o","-","r","e","p","l","y">>, <<"d","o","n","o","t","r","e","p","l","y">>, <<"m","a","i","l","e","r","-","d","a","e","m","o","n">>}

V2_extract_emails(t, s) ==
    Sorted({e \in SeqToSet(EmailFindAll(t))
                    \cup (IF s.present THEN MailtoEmails(s) ELSE {}) :
               ~Blocked(e, email_blacklist)})

(***************************************************************************)
(* lead_generator.LeadGenerator                                            *)
(***************************************************************************)
LG_false_positives == {<<"e","x","a","m","p","l","e",".","c","o","m">>, <<"d","o","m","a","i","n",".","c","o","m">>, <<"e","m","a","i","l",".","c","o","m">>}

\* the set whose list() is returned
LG_email_set(t) ==
    {e \in SeqToSet(EmailFindAll(t)) : ~Blocked(e, LG_false_positives)}

\* list(set(emails)): the elements once each, in the iteration order of the
\* set, which is the order of the str hashes and differs from run to run
ListOfSet(S) ==
    {q \in [1..Cardinality(S) -> S] : \A x \in S : \E i \in DOMAIN q : q[i] = x}

LG_extract_emails(t) == ListOfSet(LG_email_set(t))

(***************************************************************************)
(* DataValidator.is_valid_email: the format test                           *)
(*   ^[a-zA-Z0-9._%+-]+@[a-zA-Z0-9.-]+\.[a-zA-Z]{2,}$                      *)
(***************************************************************************)
MatchesEmailFormat(e) ==
    LET n == IF Len(e) > 0 /\ e[Len(e)] = "\n" THEN Len(e) - 1 ELSE Len(e)
    IN  \E at \in 2..n : \E dot \in (at + 2)..(n - 2) :
          /\ e[at] = "@"
          /\ e[dot] = "."
          /\ \A k \in 1..(at - 1) : IsLocalChar(e[k])
          /\ \A k \in (at + 1)..(dot - 1) : IsDomainChar(e[k])
          /\ \A k \in (dot + 1)..n : IsAlpha(e[k])


(***************************************************************************)
(* Contacts: {'name': ..., 'title': ...}.  A dict that is filled in a loop *)
(* is the sequence of its items in insertion order.                        *)
(***************************************************************************)
Contact(name, title) == [name |-> name, title |-> title]

HasKey(d, k) == \E j \in 1..Len(d) : d[j].key = k
Values(d) == [j \in 1..Len(d) |-> d[j].value]

\* d[k] = v: a new key is appended, a present key keeps its place
DictAssign(d, k, v) ==
    IF HasKey(d, k)
    THEN [j \in 1..Len(d) |-> IF d[j].key = k THEN [key |-> k, value |-> v] ELSE d[j]]
    ELSE Append(d, [key |-> k, value |-> v])

\* if key not in unique: unique[key] = contact
StoreIfAbsent(d, k, v) == IF HasKey(d, k) THEN d ELSE DictAssign(d, k, v)

\* re.sub(r'\s+', ' ', s): every maximal run of whitespace becomes one space
RECURSIVE CollapseFrom(_, _)
CollapseFrom(s, i) ==
    IF i > Len(s) THEN <<>>
    ELSE IF IsSpace(s[i]) THEN <<" ">> \o CollapseFrom(s, RunEnd(s, i, IsSpace))
    ELSE <<s[i]>> \o CollapseFrom(s, i + 1)

CollapseWhitespace(s) == CollapseFrom(s, 1)

(***************************************************************************)
(* DataValidator.deduplicate_contacts                                      *)
(***************************************************************************)
\* mutation of DC_name_key: the key of a deduplication that only folds case
DC_name_key_case_only(name) == StrLower(name)

\* contact['name'].lower().strip(), then the whitespace runs collapsed
DC_name_key(name) == CollapseWhitespace(Strip(StrLower(name)))

RECURSIVE DC_loop(_, _, _)
DC_loop(cs, i, unique) ==
    IF i > Len(cs) THEN unique
    ELSE DC_loop(cs, i + 1, StoreIfAbsent(unique, DC_name_key(cs[i].name), cs[i]))

deduplicate_contacts(cs) == Values(DC_loop(cs, 1, <<>>))

(***************************************************************************)
(* enhanced_scraper.ContactExtractor: names and titles                     *)
(***************************************************************************)
TARGET_TITLES ==
    <<<<"d","i","r","e","c","t","o","r">>, <<"c","o","o","r","d","i","n","a","t","o","r">>, <<"m","a","n","a","g","e","r">>, <<"a","d","m","i","n","i","s","t","r","a","t","o","r">>, <<"c","h","i","e","f">>,
      <<"s","u","p","e","r","v","i","s","o","r">>, <<"o","f","f","i","c","e","r">>, <<"s","p","e","c","i","a","l","i","s","t">>, <<"h","e","a","d">>, <<"c","h","a","i","r">>,
      <<"a","c","t","i","v","i","t","i","e","s"," ","d","i","r","e","c","t","o","r">>, <<"p","r","o","g","r","a","m"," ","d","i","r","e","c","t","o","r">>, <<"t","r","a","i","n","i","n","g"," ","m","a","n","a","g","e","r">>,
      <<"d","e","v","e","l","o","p","m","e","n","t"," ","d","i","r","e","c","t","o","r">>, <<"h","r"," ","d","i","r","e","c","t","o","r">>, <<"c","o","m","p","l","i","a","n","c","e"," ","o","f","f","i","c","e","r">>,
      <<"e","d","u","c","a","t","i","o","n"," ","c","o","o","r","d","i","n","a","t","o","r">>, <<"a","d","u","l","t"," ","s","e","r","v","i","c","e","s">>, <<"c","o","n","t","i","n","u","i","n","g"," ","e","d","u","c","a","t","i","o","n">>,
      <<"e","x","e","c","u","t","i","v","e"," ","d","i","r","e","c","t","o","r">>, <<"a","s","s","i","s","t","a","n","t"," ","d","i","r","e","c","t","o","r">>, <<"a","s","s","o","c","i","a","t","e"," ","d","i","r","e","c","t","o","r">>,
      <<"d","e","p","u","t","y"," ","d","i","r","e","c","t","o","r">>, <<"r","e","g","i","o","n","a","l"," ","d","i","r","e","c","t","o","r">>, <<"v","i","c","e"," ","p","r","e","s","i","d","e","n","t">>>>

\* any(title in t for title in TARGET_TITLES), t already lower-cased
HasTargetTitle(t) == \E k \in 1..Len(TARGET_TITLES) : Contains(t, TARGET_TITLES[k])

\* text.split(): the indices at which a word starts
WordStarts(s) ==
    {i \in 1..Len(s) : ~IsSpace(s[i]) /\ (i = 1 \/ IsSpace(s[i - 1]))}

\* mutation of _looks_like_name: the heuristic without the test of the
\* first letter of each word
_looks_like_name_any_case(t) ==
    /\ ~(Len(t) < 4 \/ Len(t) > 50)
    /\ ~(Cardinality(WordStarts(t)) < 2 \/ Cardinality(WordStarts(t)) > 4)
    /\ ~\E w \in {<<"d","i","r","e","c","t","o","r">>, <<"m","a","n","a","g","e","r">>, <<"c","o","o","r","d","i","n","a","t","o","r">>, <<"c","h","i","e","f">>} :
            Contains(StrLower(t), w)

\* ContactExtractor._looks_like_name(text)
_looks_like_name(t) ==
    /\ ~(Len(t) < 4 \/ Len(t) > 50)
    /\ ~(Cardinality(WordStarts(t)) < 2 \/ Cardinality(WordStarts(t)) > 4)
    /\ \A i \in WordStarts(t) : IsUpper(t[i])
    /\ ~\E w \in {<<"d","i","r","e","c","t","o","r">>, <<"m","a","n","a","g","e","r">>, <<"c","o","o","r","d","i","n","a","t","o","r">>, <<"c","h","i","e","f">>} :
            Contains(StrLower(t), w)

\* title.title(): a letter that follows a non-letter is upper-cased, every
\* other letter lower-cased
StrTitle(s) ==
    [i \in 1..Len(s) |->
        IF i = 1 \/ ~IsAlpha(s[i - 1]) THEN UpperChar(s[i]) ELSE LowerChar(s[i])]

\* [A-Z][a-z]+ at i, the classes given by the flags of the pattern: the
\* index after the word, or 0
WordEnd(s, i, First(_), Rest(_)) ==
    IF i >= 1 /\ i + 1 <= Len(s) /\ First(s[i]) /\ Rest(s[i + 1])
    THEN RunEnd(s, i + 1, Rest)
    ELSE 0

\* \s+[A-Z][a-z]+ after a word that ends before e (0: there was no word):
\* the index after the next word, or 0
WordAfterSpace(s, e, w, First(_), Rest(_)) ==
    IF w = e THEN 0 ELSE WordEnd(s, w, First, Rest)

NextWordEnd(s, e, First(_), Rest(_)) ==
    IF e = 0 THEN 0
    ELSE WordAfterSpace(s, e, RunEnd(s, e, IsSpace), First, Rest)

\* the ends of a name whose second word ends before e2 and whose optional
\* third word ends before e3
NameEndsOf(e2, e3) ==
    IF e2 = 0 THEN <<>>
    ELSE IF e3 = 0 THEN <<e2>>
    ELSE <<e3, e2>>

NameEndsFrom(s, e2, First(_), Rest(_)) ==
    NameEndsOf(e2, NextWordEnd(s, e2, First, Rest))

\* [A-Z][a-z]+\s+[A-Z][a-z]+(?:\s+[A-Z][a-z]+)? at i: the indices after the
\* match in the order the matcher tries them, the optional third word first
NameEnds(s, i, First(_), Rest(_)) ==
    NameEndsFrom(s, NextWordEnd(s, WordEnd(s, i, First, Rest), First, Rest),
                 First, Rest)

\* [:\-\s]
IsTitleSep(c) == c \in {":", "-"} \/ IsSpace(c)

\* Pattern 1, re.search of
\*   (?i)<title>[:\-\s]+([A-Z][a-z]+\s+[A-Z][a-z]+(?:\s+[A-Z][a-z]+)?)
\* in the line: under (?i) the letter classes match either case, and the
\* title matches where it occurs in the lower-cased line `low`.  The span
\* <<first, last>> of group 1 of the leftmost match, or <<>>.
Pattern1Group(nameAt, ends) ==
    IF ends = <<>> THEN <<>> ELSE <<nameAt, ends[1] - 1>>

Pattern1Name(line, from, nameAt) ==
    IF nameAt > from
    THEN Pattern1Group(nameAt, NameEnds(line, nameAt, IsAlpha, IsAlpha))
    ELSE <<>>

Pattern1At(line, low, title, i) ==
    IF ~MatchesAt(low, title, i) THEN <<>>
    ELSE Pattern1Name(line, i + Len(title),
                      RunEnd(line, i + Len(title), IsTitleSep))

RECURSIVE Pattern1Search(_, _, _, _)
RECURSIVE Pattern1Found(_, _, _, _, _)
Pattern1Search(line, low, title, i) ==
    IF i > Len(line) THEN <<>>
    ELSE Pattern1Found(line, low, title, i, Pattern1At(line, low, title, i))

Pattern1Found(line, low, title, i, m) ==
    IF m # <<>> THEN m ELSE Pattern1Search(line, low, title, i + 1)

RECURSIVE Pattern1Contacts(_, _, _)
Pattern1Contacts(line, low, k) ==
    IF k > Len(TARGET_TITLES) THEN <<>>
    ELSE LET m == Pattern1Search(line, low, TARGET_TITLES[k], 1)
         IN  (IF m = <<>> THEN <<>>
              ELSE <<Contact(Strip(SubSeq(line, m[1], m[2])),
                             StrTitle(TARGET_TITLES[k]))>>)
             \o Pattern1Contacts(line, low, k + 1)

\* Pattern 2, re.search of
\*   ([A-Z][a-z]+\s+[A-Z][a-z]+(?:\s+[A-Z][a-z]+)?)[,\-]\s*(.+)
\* in the line: <<first of group 1, last of group 1, first of group 2>> of
\* the leftmost match, or <<>>; group 2 runs to the end of the line.
IsNameSep(line, e) == e + 1 <= Len(line) /\ line[e] \in {",", "-"}

Pattern2Span(line, i, e, r) ==
    <<i, e - 1, IF r <= Len(line) THEN r ELSE Len(line)>>

Pattern2Tail(line, i, e) == Pattern2Span(line, i, e, RunEnd(line, e + 1, IsSpace))

Pattern2Pick(line, i, ends) ==
    IF ends # <<>> /\ IsNameSep(line, ends[1]) THEN Pattern2Tail(line, i, ends[1])
    ELSE IF Len(ends) > 1 /\ IsNameSep(line, ends[2]) THEN Pattern2Tail(line, i, ends[2])
    ELSE <<>>

Pattern2At(line, i) == Pattern2Pick(line, i, NameEnds(line, i, IsUpper, IsLower))

RECURSIVE Pattern2SearchFrom(_, _)
RECURSIVE Pattern2Found(_, _, _)
Pattern2SearchFrom(line, i) ==
    IF i > Len(line) THEN <<>>
    ELSE Pattern2Found(line, i, Pattern2At(line, i))

Pattern2Found(line, i, m) ==
    IF m # <<>> THEN m ELSE Pattern2SearchFrom(line, i + 1)

Pattern2Search(line) == Pattern2SearchFrom(line, 1)

\* name, potential_title = match.groups()
Pattern2Record(name, potential_title) ==
    IF HasTargetTitle(StrLower(potential_title))
    THEN <<Contact(Strip(name), Strip(potential_title))>>
    ELSE <<>>

Pattern2Groups(line, m) ==
    IF m = <<>> THEN <<>>
    ELSE Pattern2Record(SubSeq(line, m[1], m[2]), SubSeq(line, m[3], Len(line)))

Pattern2Contacts(line) == Pattern2Groups(line, Pattern2Search(line))

\* Pattern 3: a name on line i, a title on the next line
Pattern3Contacts(lines, i, line) ==
    IF i < Len(lines) /\ _looks_like_name(line)
       /\ HasTargetTitle(StrLower(Strip(lines[i + 1])))
    THEN <<Contact(line, Strip(lines[i + 1]))>>
    ELSE <<>>

RECURSIVE TextPatternLoop(_, _)
TextPatternLoop(lines, i) ==
    IF i > Len(lines) THEN <<>>
    ELSE LET line == Strip(lines[i])
         IN  (IF line = <<>> THEN <<>>
              ELSE Pattern1Contacts(line, StrLower(line), 1) \o Pattern2Contacts(line)
                     \o Pattern3Contacts(lines, i, line))
             \o TextPatternLoop(lines, i + 1)

_extract_from_text_patterns(t) == TextPatternLoop(SplitOn(t, "\n"), 1)

(***************************************************************************)
(* A container of the soup is a div, section or article with its class     *)
(* attribute and its descendant elements in document order, each with its  *)
(* tag and its get_text().                                                 *)
(***************************************************************************)
Element(tag, t) == [tag |-> tag, text |-> t]
Container(class, children) == [class |-> class, children |-> children]

\* the class attribute searched with re.compile('(k1|k2|...)', re.I)
ClassMatches(class, keywords) == \E k \in keywords : Contains(StrLower(class), k)

\* find_all(tags, limit=n) among the children: the first n of those tags
RECURSIVE FindAllLimit(_, _, _)
FindAllLimit(children, tags, limit) ==
    IF limit = 0 \/ children = <<>> THEN <<>>
    ELSE IF Head(children).tag \in tags
         THEN <<Head(children)>> \o FindAllLimit(Tail(children), tags, limit - 1)
         ELSE FindAllLimit(Tail(children), tags, limit)

\* get_text() of a container and of the page: the texts in document order
RECURSIVE ConcatTexts(_)
ConcatTexts(children) ==
    IF children = <<>> THEN <<>>
    ELSE Head(children).text \o ConcatTexts(Tail(children))

RECURSIVE PageText(_)
PageText(containers) ==
    IF containers = <<>> THEN <<>>
    ELSE ConcatTexts(Head(containers).children) \o PageText(Tail(containers))

ES_container_classes ==
    {<<"s","t","a","f","f">>, <<"t","e","a","m">>, <<"d","i","r","e","c","t","o","r","y">>, <<"p","e","r","s","o","n">>, <<"m","e","m","b","e","r">>, <<"c","o","n","t","a","c","t">>}

\* the first heading or emphasis tag, of the first three, that looks like a name
StructuredName(c) ==
    LET tags == FindAllLimit(c.children, {"h2", "h3", "h4", "strong", "b"}, 3)
        hits == {k \in 1..Len(tags) : _looks_like_name(Strip(tags[k].text))}
    IN  IF hits = {} THEN <<>> ELSE Strip(tags[Min(hits)].text)

\* the first p, span or div, of the first five, whose text holds a title
StructuredTitle(c) ==
    LET elems == FindAllLimit(c.children, {"p", "span", "div"}, 5)
        hits == {k \in 1..Len(elems) : HasTargetTitle(StrLower(Strip(elems[k].text)))}
    IN  IF hits = {} THEN <<>> ELSE Strip(elems[Min(hits)].text)

RECURSIVE StructuredLoop(_)
StructuredLoop(containers) ==
    IF containers = <<>> THEN <<>>
    ELSE LET c == Head(containers)
             name == StructuredName(c)
             title == IF name # <<>> THEN StructuredTitle(c) ELSE <<>>
         IN  (IF ClassMatches(c.class, ES_container_classes)
                 /\ name # <<>> /\ title # <<>>
              THEN <<Contact(name, title)>> ELSE <<>>)
             \o StructuredLoop(Tail(containers))

_extract_from_structured_html(s) == StructuredLoop(s.containers)

\* the list `contacts` of extract_names_with_titles before it is deduplicated
ES_candidates(t, s) ==
    (IF s.present THEN _extract_from_structured_html(s) ELSE <<>>)
        \o _extract_from_text_patterns(t)

\* key = contact['name'].lower()
ES_name_key(name) == StrLower(name)

RECURSIVE ES_unique_loop(_, _, _)
ES_unique_loop(cs, i, unique) ==
    IF i > Len(cs) THEN unique
    ELSE ES_unique_loop(cs, i + 1, StoreIfAbsent(unique, ES_name_key(cs[i].name), cs[i]))

\* the deduplication loop and the list returned
ES_unique(cs) == Values(ES_unique_loop(cs, 1, <<>>))

extract_names_with_titles(t, s) == ES_unique(ES_candidates(t, s))

(***************************************************************************)
(* lead_generator_v2.ContactExtractor.extract_contact_info                 *)
(***************************************************************************)
V2_section_classes == {<<"s","t","a","f","f">>, <<"t","e","a","m">>, <<"d","i","r","e","c","t","o","r","y">>, <<"c","o","n","t","a","c","t">>, <<"a","b","o","u","t">>}

\* (Director|Coordinator|Manager|Administrator|Chief|Officer|Supervisor)
V2_titles ==
    <<<<"D","i","r","e","c","t","o","r">>, <<"C","o","o","r","d","i","n","a","t","o","r">>, <<"M","a","n","a","g","e","r">>, <<"A","d","m","i","n","i","s","t","r","a","t","o","r">>, <<"C","h","i","e","f">>,
      <<"O","f","f","i","c","e","r">>, <<"S","u","p","e","r","v","i","s","o","r">>>>

IsCommaSpace(c) == c = "," \/ IsSpace(c)

\* combined_pattern at i: <<index after the name, first of the title, number
\* of the title>> of the match the matcher finds first, or <<>>
V2_title_at(t, p) == {k \in 1..Len(V2_titles) : MatchesAt(t, V2_titles[k], p)}

V2_title_match(e, p, alts) ==
    IF p > e /\ alts # {} THEN <<e, p, Min(alts)>> ELSE <<>>

V2_title_after(t, e, p) == V2_title_match(e, p, V2_title_at(t, p))

V2_name_end(t, e) == V2_title_after(t, e, RunEnd(t, e, IsCommaSpace))

V2_second_end(t, ends, m) ==
    IF m # <<>> THEN m
    ELSE IF Len(ends) > 1 THEN V2_name_end(t, ends[2])
    ELSE <<>>

V2_pick(t, ends) ==
    IF ends = <<>> THEN <<>> ELSE V2_second_end(t, ends, V2_name_end(t, ends[1]))

V2_match_at(t, i) == V2_pick(t, NameEnds(t, i, IsUpper, IsLower))

\* re.findall(combined_pattern, text) from pos, as contacts
RECURSIVE V2_find_all(_, _)
RECURSIVE V2_found(_, _, _)
V2_find_all(t, pos) ==
    IF pos > Len(t) THEN <<>>
    ELSE V2_found(t, pos, V2_match_at(t, pos))

V2_found(t, i, m) ==
    IF m = <<>> THEN V2_find_all(t, i + 1)
    ELSE <<Contact(Strip(SubSeq(t, i, m[1] - 1)), Strip(V2_titles[m[3]]))>>
         \o V2_find_all(t, m[2] + Len(V2_titles[m[3]]))

RECURSIVE V2_section_loop(_)
V2_section_loop(containers) ==
    IF containers = <<>> THEN <<>>
    ELSE (IF ClassMatches(Head(containers).class, V2_section_classes)
          THEN V2_find_all(ConcatTexts(Head(containers).children), 1)
          ELSE <<>>)
         \o V2_section_loop(Tail(containers))

\* contacts[:10]
FirstTen(cs) == SubSeq(cs, 1, IF Len(cs) < 10 THEN Len(cs) ELSE 10)

V2_extract_contact_info(s) ==
    [contacts |-> FirstTen(V2_section_loop(s.containers)),
     emails |-> V2_extract_emails(PageText(s.containers), s)]

(***************************************************************************)
(* State: the page handed to the extractors, the candidate list handed to  *)
(* the deduplication, the operation called and what it returned.  The      *)
(* extractors keep no state between calls (they read only their arguments  *)
(* and the class constants), so a behaviour is one call on one input.      *)
(***************************************************************************)
VARIABLES text, soup, contacts, called, emails, returned

\* the arguments of the URL builders of lead_generator_v2
VARIABLES county_name, state, base_url, dept_type

\* the batch of a generator: the arguments of run and the web it meets
\* (or the one response a single fetch meets),
\* the locals of run, process_county, find_county_website and
\* scrape_for_departments, the position in them, and what was requested,
\* exported and raised so far
VARIABLES generator, counties, live, broken, response,
          pc, county_no, all_data, county_data, county_url,
          dept_no, patterns, trial, departments,
          log, outcomes, exports

urlVars == <<county_name, state, base_url, dept_type>>

pageVars == <<text, soup, contacts, called, emails, returned>>

webVars == <<generator, counties, live, broken, response>>

crawlVars == <<pc, county_no, all_data, county_data, county_url, dept_no, patterns,
               trial, departments,
               log, outcomes, exports>>

vars == <<pageVars, urlVars, webVars, crawlVars>>

\* a behaviour of the extractors gives the URL builders no arguments
NoUrlArguments ==
    county_name = <<>> /\ state = <<>> /\ base_url = <<>> /\ dept_type = <<>>

\* and runs no batch
NoResponse == [raised |-> FALSE, status_code |-> 0, content |-> None]

NoBatch ==
    /\ generator = "none" /\ counties = <<>> /\ live = {} /\ broken = {}
    /\ response = NoResponse
    /\ pc = "idle" /\ county_no = 0 /\ all_data = <<>> /\ county_data = <<>>
    /\ county_url = <<>> /\ dept_no = 0 /\ patterns = <<>> /\ trial = 0
    /\ departments = <<>> /\ log = <<>> /\ outcomes = <<>> /\ exports = <<>>

(***************************************************************************)
(* Pages for the email extractors: a text of addresses in running prose    *)
(* and a soup of anchors, MaxItems address occurrences in all.             *)
(***************************************************************************)
MaxItems == 2

AddressPool ==
    {<<"j","o","h","n",".","d","o","e","@","c","o","u","n","t","y",".","g","o","v">>, <<"s","p","a","m","@","n","o","r","e","p","l","y",".","o","r","g">>, <<"I","n","f","o","@","E","x","a","m","p","l","e",".","C","O","M">>,
     <<"a","@","b",".","c","d">>, <<"x","@","y",".","c","o","|","u","k">>, <<"p","o","s","t","m","a","s","t","e","r","@","c","o","u","n","t","y",".","g","o","v">>,
     <<"s","u","p","p","o","r","t","@","t","e","s","t",".","c","o","m">>}

Leads == {<<>>, <<"C","o","n","t","a","c","t"," ">>}
Separators == {<<" ","o","r"," ">>, <<"\n">>}

HrefSchemes == {<<"m","a","i","l","t","o",":">>, <<"M","A","I","L","T","O",":">>, <<"t","e","l",":">>}
HrefBodies == {<<"j","a","n","e","@","c","o","u","n","t","y",".","g","o","v">>, <<"a","@","b">>, <<"f","r","o","n","t"," ","d","e","s","k","@","c","o","u","n","t","y">>,
               <<"n","o","r","e","p","l","y","@","c","o","u","n","t","y",".","g","o","v">>}
HrefQueries == {<<>>, <<"?","s","u","b","j","e","c","t","=","H","i">>}
HrefPool == {sc \o b \o q : sc \in HrefSchemes, b \in HrefBodies, q \in HrefQueries}

RECURSIVE Join(_, _)
Join(parts, sep) ==
    IF Len(parts) = 0 THEN <<>>
    ELSE IF Len(parts) = 1 THEN parts[1]
    ELSE parts[1] \o sep \o Join(Tail(parts), sep)

SeqsOf(S, n) == UNION {[1..k -> S] : k \in 0..n}

\* the pages with n addresses in the text and up to max - n anchors
EmailPages(n, max) ==
    {[text |-> lead \o Join(a, sep), soup |-> Soup(h, <<>>)] :
        lead \in Leads, sep \in Separators,
        a \in [1..n -> AddressPool], h \in SeqsOf(HrefPool, max - n)}
    \cup
    {[text |-> lead \o Join(a, sep), soup |-> None] :
        lead \in Leads, sep \in Separators, a \in [1..n -> AddressPool]}

InitEmails ==
    /\ \E n \in 0..MaxItems : \E p \in EmailPages(n, MaxItems) :
          text = p.text /\ soup = p.soup
    /\ contacts = <<>>
    /\ called = "none"
    /\ emails = <<>>
    /\ returned = <<>>
    /\ NoUrlArguments
    /\ NoBatch

\* enhanced_scraper.ContactExtractor().extract_emails(text, soup)
ES_ExtractEmails ==
    /\ called = "none"
    /\ emails' = ES_extract_emails(text, soup)
    /\ called' = "enhanced_scraper.extract_emails"
    /\ UNCHANGED <<text, soup, contacts, returned>>
    /\ UNCHANGED <<urlVars, webVars, crawlVars>>

\* lead_generator_v2.ContactExtractor().extract_emails(text, soup)
V2_ExtractEmails ==
    /\ called = "none"
    /\ emails' = V2_extract_emails(text, soup)
    /\ called' = "lead_generator_v2.extract_emails"
    /\ UNCHANGED <<text, soup, contacts, returned>>
    /\ UNCHANGED <<urlVars, webVars, crawlVars>>

\* lead_generator.LeadGenerator().extract_emails(text)
LG_ExtractEmails ==
    /\ called = "none"
    /\ emails' \in LG_extract_emails(text)
    /\ called' = "lead_generator.extract_emails"
    /\ UNCHANGED <<text, soup, contacts, returned>>
    /\ UNCHANGED <<urlVars, webVars, crawlVars>>

NextEmails == ES_ExtractEmails \/ V2_ExtractEmails \/ LG_ExtractEmails

SpecEmails == InitEmails /\ [][NextEmails]_vars

EmailExtractors ==
    {"enhanced_scraper.extract_emails", "lead_generator_v2.extract_emails",
     "lead_generator.extract_emails"}

(***************************************************************************)
(* C1: every address that enhanced_scraper's extract_emails returns has    *)
(* the form local-part@domain-labels.TLD, the TLD being two or more        *)
(* letters, whether it came from the text or from a mailto link.           *)
(***************************************************************************)
C1_ReturnedAddressesWellFormed ==
    called = "enhanced_scraper.extract_emails" =>
        \A i \in 1..Len(emails) : MatchesEmailFormat(emails[i])

(***************************************************************************)
(* C2: no address returned by any of the three extractors contains, in any *)
(* letter case, noreply, no-reply, donotreply, mailer-daemon, postmaster   *)
(* or a placeholder domain such as example.com or test.com.                *)
(***************************************************************************)
ExclusionSubstrings ==
    {<<"n","o","r","e","p","l","y">>, <<"n","o","-","r","e","p","l","y">>, <<"d","o","n","o","t","r","e","p","l","y">>, <<"m","a","i","l","e","r","-","d","a","e","m","o","n">>,
     <<"p","o","s","t","m","a","s","t","e","r">>, <<"e","x","a","m","p","l","e",".","c","o","m">>, <<"t","e","s","t",".","c","o","m">>}

C2_NoExcludedAddressReturned ==
    called \in EmailExtractors =>
        \A i \in 1..Len(emails) : ~Blocked(emails[i], ExclusionSubstrings)

(***************************************************************************)
(* C3: extract_emails returns each address once, in ascending              *)
(* lexicographic order, so that the list is determined by the set of       *)
(* addresses of the input.                                                 *)
(***************************************************************************)
C3_ReturnedSortedOnce ==
    called \in {"enhanced_scraper.extract_emails", "lead_generator.extract_emails"} =>
        \A i \in 1..(Len(emails) - 1) : StrLess(emails[i], emails[i + 1])

(***************************************************************************)
(* C4: for an anchor whose href begins with mailto: in any letter case the *)
(* address contributed is the href without the scheme and without the      *)
(* query string: no returned address carries the scheme or a '?'.          *)
(***************************************************************************)
C4_MailtoSchemeAndQueryStripped ==
    called \in {"enhanced_scraper.extract_emails", "lead_generator_v2.extract_emails"} =>
        \A i \in 1..Len(emails) :
            /\ ~Contains(StrLower(emails[i]), <<"m","a","i","l","t","o",":">>)
            /\ ~Contains(emails[i], <<"?">>)

(***************************************************************************)
(* C5: no address shorter than 6 characters is returned by the             *)
(* enhanced_scraper or the lead_generator_v2 extractor.                    *)
(***************************************************************************)
C5_NoShortAddressReturned ==
    called \in {"enhanced_scraper.extract_emails", "lead_generator_v2.extract_emails"} =>
        \A i \in 1..Len(emails) : Len(emails[i]) >= 6

(***************************************************************************)
(* Candidate lists for the deduplication and pages for the name and title  *)
(* extraction.                                                             *)
(***************************************************************************)
MaxContacts == 3
MaxLines == 2
MaxContainers == 1

NamePool == {<<"J","a","n","e"," ","S","m","i","t","h">>, <<"j","a","n","e"," "," "," ","s","m","i","t","h">>, <<" ","J","A","N","E"," ","S","M","I","T","H">>, <<"B","o","b"," ","R","a","y">>, <<" "," ">>}
TitlePool == {<<>>, <<"D","i","r","e","c","t","o","r">>}
ContactPool == {Contact(n, t) : n \in NamePool, t \in TitlePool}

LinePool ==
    {<<"D","i","r","e","c","t","o","r",":"," ","J","a","n","e"," ","S","m","i","t","h">>, <<"M","a","n","a","g","e","r"," ","-"," ","J","a","n","e"," "," ","S","m","i","t","h">>, <<"c","h","i","e","f",":"," ","J","A","N","E"," ","S","M","I","T","H">>,
     <<"J","a","n","e"," ","S","m","i","t","h",","," ","P","r","o","g","r","a","m"," ","C","o","o","r","d","i","n","a","t","o","r">>, <<"B","o","b"," ","R","a","y">>}

ContainerPool ==
    {Container(<<"s","t","a","f","f","-","m","e","m","b","e","r">>,
               <<Element("h3", <<"J","a","n","e"," ","S","m","i","t","h">>), Element("p", <<"E","x","e","c","u","t","i","v","e"," ","D","i","r","e","c","t","o","r">>)>>),
     Container(<<"a","b","o","u","t">>,
               <<Element("p", <<"J","a","n","e"," ","S","m","i","t","h",","," ","D","i","r","e","c","t","o","r">>),
                 Element("span", <<"J","a","n","e"," ","S","m","i","t","h"," ","M","a","n","a","g","e","r">>)>>),
     Container(<<"T","e","a","m">>,
               <<Element("strong", <<"J","A","N","E"," ","S","M","I","T","H">>), Element("span", <<"d","e","p","u","t","y"," ","d","i","r","e","c","t","o","r">>)>>)}

ContactPages(maxLines, maxContainers) ==
    {[text |-> Join(lines, <<"\n">>), soup |-> s] :
        lines \in SeqsOf(LinePool, maxLines),
        s \in {None} \cup {Soup(<<>>, c) : c \in SeqsOf(ContainerPool, maxContainers)}}

InitContacts ==
    /\ \/ /\ contacts \in SeqsOf(ContactPool, MaxContacts)
          /\ text = <<>>
          /\ soup = None
       \/ /\ contacts = <<>>
          /\ \E p \in ContactPages(MaxLines, MaxContainers) :
                text = p.text /\ soup = p.soup
    /\ called = "none"
    /\ emails = <<>>
    /\ returned = <<>>
    /\ NoUrlArguments
    /\ NoBatch

\* DataValidator.deduplicate_contacts(contacts)
DeduplicateContacts ==
    /\ called = "none"
    /\ returned' = deduplicate_contacts(contacts)
    /\ called' = "deduplicate_contacts"
    /\ UNCHANGED <<text, soup, contacts, emails>>
    /\ UNCHANGED <<urlVars, webVars, crawlVars>>

\* enhanced_scraper.ContactExtractor().extract_names_with_titles(text, soup);
\* contacts is the list the strategies built, returned the deduplicated one
ES_ExtractNamesWithTitles ==
    /\ called = "none"
    /\ contacts' = ES_candidates(text, soup)
    /\ returned' = ES_unique(contacts')
    /\ called' = "extract_names_with_titles"
    /\ UNCHANGED <<text, soup, emails>>
    /\ UNCHANGED <<urlVars, webVars, crawlVars>>

\* lead_generator_v2.ContactExtractor().extract_contact_info(soup);
\* contacts is the list of the matches, returned its first ten
V2_ExtractContactInfo ==
    /\ called = "none"
    /\ soup.present
    /\ contacts' = V2_section_loop(soup.containers)
    /\ \E info \in {V2_extract_contact_info(soup)} :
          returned' = info.contacts /\ emails' = info.emails
    /\ called' = "extract_contact_info"
    /\ UNCHANGED <<text, soup>>
    /\ UNCHANGED <<urlVars, webVars, crawlVars>>

NextContacts == DeduplicateContacts \/ ES_ExtractNamesWithTitles \/ V2_ExtractContactInfo

SpecContacts == InitContacts /\ [][NextContacts]_vars

\* The identity key of a contact as the specification words it: the name
\* lower-cased, trimmed, every run of whitespace one space; that is, its
\* words joined by single spaces.
IsNonSpace(c) == ~IsSpace(c)

RECURSIVE WordsFrom(_, _)
WordsFrom(s, i) ==
    IF i > Len(s) THEN <<>>
    ELSE IF IsSpace(s[i]) THEN WordsFrom(s, i + 1)
    ELSE <<SubSeq(s, i, RunEnd(s, i, IsNonSpace) - 1)>>
            \o WordsFrom(s, RunEnd(s, i, IsNonSpace))

NormalizedName(name) == Join(WordsFrom(StrLower(name), 1), <<" ">>)

\* the first candidate of the list whose key is k
FirstWith(cs, Key(_), k) == Min({i \in 1..Len(cs) : Key(cs[i].name) = k})

(***************************************************************************)
(* C6: the output of deduplicate_contacts has no two records with the same *)
(* normalized name, and every normalized name of the input is the          *)
(* normalized name of exactly one output record.                           *)
(***************************************************************************)
C6_DedupKeysUniqueAndComplete ==
    called = "deduplicate_contacts" =>
        /\ \A j, k \in 1..Len(returned) :
              j # k => NormalizedName(returned[j].name) # NormalizedName(returned[k].name)
        /\ \A i \in 1..Len(contacts) :
              Cardinality({j \in 1..Len(returned) :
                  NormalizedName(returned[j].name) = NormalizedName(contacts[i].name)}) = 1

C6_Witness ==
    /\ called = "deduplicate_contacts"
    /\ Len(contacts) = 3
    /\ Len(returned) = 2
    /\ \E i, k \in 1..Len(contacts) :
          /\ contacts[i].name # contacts[k].name
          /\ StrLower(contacts[i].name) # StrLower(contacts[k].name)
          /\ NormalizedName(contacts[i].name) = NormalizedName(contacts[k].name)

(***************************************************************************)
(* C7: the title of a deduplicated record is the first non-empty title     *)
(* among the candidates that share its key: a later candidate fills the    *)
(* title of a record whose title is empty.                                 *)
(***************************************************************************)
FirstNonEmptyTitle(cs, k) ==
    LET titled == {i \in 1..Len(cs) :
                      NormalizedName(cs[i].name) = k /\ cs[i].title # <<>>}
    IN  IF titled = {} THEN <<>> ELSE cs[Min(titled)].title

C7_TitleIsFirstNonEmpty ==
    called \in {"deduplicate_contacts", "extract_names_with_titles"} =>
        \A j \in 1..Len(returned) :
            returned[j].title =
                FirstNonEmptyTitle(contacts, NormalizedName(returned[j].name))

(***************************************************************************)
(* C8: the name of every deduplicated record is, character for character,  *)
(* the name of the first candidate in input order that has its normalized  *)
(* key, later candidates with the key change nothing, and the records are  *)
(* in the order of the first occurrence of their keys; in                  *)
(* deduplicate_contacts and in the loop of extract_names_with_titles.      *)
(***************************************************************************)
FirstSeenWins(cs, out, Key(_)) ==
    /\ \A j \in 1..Len(out) :
          out[j] = cs[FirstWith(cs, Key, Key(out[j].name))]
    /\ \A j, k \in 1..Len(out) :
          j < k => FirstWith(cs, Key, Key(out[j].name))
                     < FirstWith(cs, Key, Key(out[k].name))
    /\ \A i \in 1..Len(cs) : \E j \in 1..Len(out) : Key(out[j].name) = Key(cs[i].name)

C8_DisplayedNameFirstSeen ==
    called \in {"deduplicate_contacts", "extract_names_with_titles"} =>
        FirstSeenWins(contacts, returned, NormalizedName)

(***************************************************************************)
(* C9: no record produced by the deduplication has an empty normalized     *)
(* name; a candidate whose name is empty or whitespace yields no record.   *)
(***************************************************************************)
C9_NoEmptyNormalizedName ==
    called \in {"deduplicate_contacts", "extract_names_with_titles"} =>
        \A j \in 1..Len(returned) : NormalizedName(returned[j].name) # <<>>

(***************************************************************************)
(* C10: the contact list returned for a page by extract_names_with_titles  *)
(* or by extract_contact_info holds no two records whose names are equal   *)
(* up to letter case and whitespace runs.                                  *)
(***************************************************************************)
C10_PageContactsDistinct ==
    called \in {"extract_names_with_titles", "extract_contact_info"} =>
        \A j, k \in 1..Len(returned) :
            j # k => NormalizedName(returned[j].name) # NormalizedName(returned[k].name)

(***************************************************************************)
(* Texts for the name heuristic: up to MaxWords words joined by one space, *)
(* and the texts the tests of the heuristic name.                          *)
(***************************************************************************)
MaxWords == 5

NameWords ==
    {<<"J","o","h","n">>, <<"S","m","i","t","h">>, <<"m","a","r","y">>, <<"A">>, <<"W","o","l","f","e","s","c","h","l","e","g","e","l","s","t","e","i","n","h","a","u","s","e","n">>, <<"O","f","f","i","c","e","r">>}

NameExamples ==
    {<<"B","o","b">>, <<"J","o","h","n"," ","M","i","c","h","a","e","l"," ","A","l","e","x","a","n","d","e","r"," ","S","m","i","t","h"," ","J","o","n","e","s">>, <<"J","o","h","n"," ","S","m","i","t","h">>,
     <<"M","a","r","y"," ","J","a","n","e"," ","W","a","t","s","o","n">>, <<"P","r","o","g","r","a","m"," ","D","i","r","e","c","t","o","r">>, <<"M","a","r","y"," ","S","u","p","e","r","v","i","s","o","r">>,
     <<" ","J","a","n","e"," "," ","S","m","i","t","h"," ">>, <<"J","a","n","e"," ","C","h","i","e","f">>}

NameTexts(max) ==
    {Join(w, <<" ">>) : w \in SeqsOf(NameWords, max)} \cup NameExamples

InitNames ==
    /\ text \in NameTexts(MaxWords)
    /\ soup = None
    /\ contacts = <<>>
    /\ called = "none"
    /\ emails = <<>>
    /\ returned = <<>>
    /\ NoUrlArguments
    /\ NoBatch

\* enhanced_scraper.ContactExtractor()._looks_like_name(text)
LooksLikeName ==
    /\ called = "none"
    /\ returned' = _looks_like_name(text)
    /\ called' = "_looks_like_name"
    /\ UNCHANGED <<text, soup, contacts, emails>>
    /\ UNCHANGED <<urlVars, webVars, crawlVars>>

NextNames == LooksLikeName

SpecNames == InitNames /\ [][NextNames]_vars

(***************************************************************************)
(* C11: _looks_like_name accepts a text only if its length is in 4..50, it *)
(* has 2 to 4 whitespace-separated words and every word starts with an     *)
(* upper-case letter; 'Bob' and 'John Michael Alexander Smith Jones' are   *)
(* rejected, 'John Smith' and 'Mary Jane Watson' are accepted.             *)
(***************************************************************************)
C11_NameHeuristicShape ==
    called = "_looks_like_name" =>
        /\ returned =>
              /\ Len(text) >= 4 /\ Len(text) <= 50
              /\ Len(WordsFrom(text, 1)) >= 2 /\ Len(WordsFrom(text, 1)) <= 4
              /\ \A k \in 1..Len(WordsFrom(text, 1)) : IsUpper(WordsFrom(text, 1)[k][1])
        /\ text \in {<<"B","o","b">>, <<"J","o","h","n"," ","M","i","c","h","a","e","l"," ","A","l","e","x","a","n","d","e","r"," ","S","m","i","t","h"," ","J","o","n","e","s">>} => ~returned
        /\ text \in {<<"J","o","h","n"," ","S","m","i","t","h">>, <<"M","a","r","y"," ","J","a","n","e"," ","W","a","t","s","o","n">>} => returned

C11_Witness ==
    /\ called = "_looks_like_name"
    /\ returned = TRUE
    /\ Len(WordsFrom(text, 1)) = 4

(***************************************************************************)
(* C12: no text accepted by _looks_like_name contains, in any letter case, *)
(* a word of the title vocabulary TARGET_TITLES.                           *)
(***************************************************************************)
C12_NameHasNoTitleWord ==
    (called = "_looks_like_name" /\ returned = TRUE) =>
        ~HasTargetTitle(StrLower(text))

(***************************************************************************)
(* Pages of text lines given to both extractors of enhanced_scraper: the   *)
(* contacts and the emails of one page.                                    *)
(***************************************************************************)
MaxPageLines == 3

\* lines "<title phrase> - <Name>" and "<title phrase>: <Name>", with the
\* phrase and the name they are written from
TitledLines ==
    {[line |-> <<"D","i","r","e","c","t","o","r",":"," ","J","a","n","e"," ","S","m","i","t","h">>,
      phrase |-> <<"D","i","r","e","c","t","o","r">>, name |-> <<"J","a","n","e"," ","S","m","i","t","h">>],
     [line |-> <<"P","r","o","g","r","a","m"," ","M","a","n","a","g","e","r"," ","-"," ","J","o","h","n"," ","A","d","a","m","s",","," ","j","a","d","a","m","s","@","c","o",".","g","o","v">>,
      phrase |-> <<"P","r","o","g","r","a","m"," ","M","a","n","a","g","e","r">>, name |-> <<"J","o","h","n"," ","A","d","a","m","s">>],
     [line |-> <<"D","e","p","u","t","y"," ","D","i","r","e","c","t","o","r"," ","-"," ","A","n","n"," ","L","e","e">>,
      phrase |-> <<"D","e","p","u","t","y"," ","D","i","r","e","c","t","o","r">>, name |-> <<"A","n","n"," ","L","e","e">>],
     [line |-> <<"C","h","i","e","f"," ","-"," ","B","o","b"," ","R","a","y">>,
      phrase |-> <<"C","h","i","e","f">>, name |-> <<"B","o","b"," ","R","a","y">>]}

PageLinePool == {l.line : l \in TitledLines} \cup {<<"C","o","n","t","a","c","t",":"," ","i","n","f","o","@","c","o","u","n","t","y",".","g","o","v">>}

PageTexts(max) == {Join(lines, <<"\n">>) : lines \in SeqsOf(PageLinePool, max)}

InitPages ==
    /\ text \in PageTexts(MaxPageLines)
    /\ soup = None
    /\ contacts = <<>>
    /\ called = "none"
    /\ emails = <<>>
    /\ returned = <<>>
    /\ NoUrlArguments
    /\ NoBatch

\* extractor = enhanced_scraper.ContactExtractor();
\* extractor.extract_names_with_titles(text) and extractor.extract_emails(text)
ES_ExtractPage ==
    /\ called = "none"
    /\ contacts' = ES_candidates(text, soup)
    /\ returned' = ES_unique(contacts')
    /\ emails' = ES_extract_emails(text, soup)
    /\ called' = "enhanced_scraper.page"
    /\ UNCHANGED <<text, soup>>
    /\ UNCHANGED <<urlVars, webVars, crawlVars>>

NextPages == ES_ExtractPage

SpecPages == InitPages /\ [][NextPages]_vars

(***************************************************************************)
(* C13: the page 'Director: Jane Smith' / 'Program Manager - John Adams,   *)
(* jadams@co.gov' yields the contacts Jane Smith, Director and John Adams, *)
(* Program Manager and exactly the email jadams@co.gov; in general a line  *)
(* '<title phrase> - <Name>' yields a contact of that name whose title is  *)
(* the whole title phrase.                                                 *)
(***************************************************************************)
C13_TitlePhraseKept ==
    called = "enhanced_scraper.page" =>
        /\ text = <<"D","i","r","e","c","t","o","r",":"," ","J","a","n","e"," ","S","m","i","t","h","\n","P","r","o","g","r","a","m"," ","M","a","n","a","g","e","r"," ","-"," ","J","o","h","n"," ","A","d","a","m","s",","," ","j","a","d","a","m","s","@","c","o",".","g","o","v">> =>
              /\ \E j \in 1..Len(returned) :
                    returned[j] = Contact(<<"J","a","n","e"," ","S","m","i","t","h">>, <<"D","i","r","e","c","t","o","r">>)
              /\ \E j \in 1..Len(returned) :
                    returned[j] = Contact(<<"J","o","h","n"," ","A","d","a","m","s">>, <<"P","r","o","g","r","a","m"," ","M","a","n","a","g","e","r">>)
              /\ emails = <<<<"j","a","d","a","m","s","@","c","o",".","g","o","v">>>>
        /\ \A l \in TitledLines :
              Contains(text, l.line) =>
                  \E j \in 1..Len(returned) : returned[j] = Contact(l.name, l.phrase)

(***************************************************************************)
(* lead_generator_v2.CountyURLBuilder                                      *)
(***************************************************************************)
\* str.replace(old, new) of every occurrence, left to right
RECURSIVE ReplaceAllFrom(_, _, _, _)
ReplaceAllFrom(s, old, new, i) ==
    IF i > Len(s) THEN <<>>
    ELSE IF MatchesAt(s, old, i)
         THEN new \o ReplaceAllFrom(s, old, new, i + Len(old))
         ELSE <<s[i]>> \o ReplaceAllFrom(s, old, new, i + 1)

StrReplace(s, old, new) == ReplaceAllFrom(s, old, new, 1)

\* str.rstrip('/')
RECURSIVE RStripSlash(_)
RStripSlash(s) ==
    IF s # <<>> /\ s[Len(s)] = "/" THEN RStripSlash(SubSeq(s, 1, Len(s) - 1))
    ELSE s

\* [p for p in patterns if p]
RECURSIVE DropNone(_)
DropNone(ps) ==
    IF ps = <<>> THEN <<>>
    ELSE (IF Head(ps) = <<>> THEN <<>> ELSE <<Head(ps)>>)
         \o DropNone(Tail(ps))

\* county_name.lower().replace(' county', '').replace(' ', '')
clean_name(name) == StrReplace(StrReplace(StrLower(name), <<" ","c","o","u","n","t","y">>, <<>>), <<" ">>, <<>>)

\* mutation of CountyPatternList: the pattern of Maryland for every state
CountyPatternListAnyState(st, clean, state_lower) ==
    <<<<"h","t","t","p","s",":","/","/">> \o clean \o <<"c","o","u","n","t","y","m","d",".","g","o","v">>,
      <<"h","t","t","p","s",":","/","/">> \o clean \o <<"c","o","u","n","t","y">> \o state_lower \o <<".","g","o","v">>,
      <<"h","t","t","p","s",":","/","/","w","w","w",".">> \o clean \o <<"c","o","u","n","t","y">> \o state_lower \o <<".","g","o","v">>,
      <<"h","t","t","p","s",":","/","/">> \o clean \o state_lower \o <<".","g","o","v">>,
      <<"h","t","t","p","s",":","/","/","w","w","w",".">> \o clean \o state_lower \o <<".","g","o","v">>,
      <<"h","t","t","p","s",":","/","/","w","w","w",".","c","o",".">> \o clean \o <<".">> \o state_lower \o <<".","u","s">>,
      <<"h","t","t","p","s",":","/","/","c","o",".">> \o clean \o <<".">> \o state_lower \o <<".","u","s">>>>

CountyPatternList(st, clean, state_lower) ==
    <<IF st = <<"M","D">> THEN <<"h","t","t","p","s",":","/","/">> \o clean \o <<"c","o","u","n","t","y","m","d",".","g","o","v">> ELSE <<>>,
      <<"h","t","t","p","s",":","/","/">> \o clean \o <<"c","o","u","n","t","y">> \o state_lower \o <<".","g","o","v">>,
      <<"h","t","t","p","s",":","/","/","w","w","w",".">> \o clean \o <<"c","o","u","n","t","y">> \o state_lower \o <<".","g","o","v">>,
      <<"h","t","t","p","s",":","/","/">> \o clean \o state_lower \o <<".","g","o","v">>,
      <<"h","t","t","p","s",":","/","/","w","w","w",".">> \o clean \o state_lower \o <<".","g","o","v">>,
      <<"h","t","t","p","s",":","/","/","w","w","w",".","c","o",".">> \o clean \o <<".">> \o state_lower \o <<".","u","s">>,
      <<"h","t","t","p","s",":","/","/","c","o",".">> \o clean \o <<".">> \o state_lower \o <<".","u","s">>>>

\* CountyURLBuilder.get_county_patterns(county_name, state); the entry None
\* of the list is the empty string here, no pattern being empty
get_county_patterns(name, st) ==
    DropNone(CountyPatternList(st, clean_name(name), StrLower(st)))

dept_slugs ==
    <<<<<<"a","g","i","n","g">>, <<<<"a","g","i","n","g">>, <<"s","e","n","i","o","r","s">>, <<"s","e","n","i","o","r","-","s","e","r","v","i","c","e","s">>, <<"o","f","f","i","c","e","-","o","n","-","a","g","i","n","g">>>>>>,
      <<<<"i","t">>, <<<<"i","t">>, <<"t","e","c","h","n","o","l","o","g","y">>, <<"i","n","f","o","r","m","a","t","i","o","n","-","t","e","c","h","n","o","l","o","g","y">>>>>>,
      <<<<"c","y","b","e","r","s","e","c","u","r","i","t","y">>, <<<<"c","y","b","e","r","s","e","c","u","r","i","t","y">>, <<"s","e","c","u","r","i","t","y">>, <<"i","n","f","o","r","m","a","t","i","o","n","-","s","e","c","u","r","i","t","y">>>>>>,
      <<<<"w","o","r","k","f","o","r","c","e">>, <<<<"w","o","r","k","f","o","r","c","e">>, <<"e","m","p","l","o","y","m","e","n","t">>, <<"j","o","b","s">>, <<"c","a","r","e","e","r","-","s","e","r","v","i","c","e","s">>>>>>,
      <<<<"s","c","h","o","o","l","s">>, <<<<"s","c","h","o","o","l","s">>, <<"e","d","u","c","a","t","i","o","n">>, <<"p","u","b","l","i","c","-","s","c","h","o","o","l","s">>>>>>,
      <<<<"l","i","b","r","a","r","y">>, <<<<"l","i","b","r","a","r","y">>, <<"l","i","b","r","a","r","i","e","s">>>>>>,
      <<<<"c","o","m","m","u","n","i","t","y","-","c","o","l","l","e","g","e">>,
        <<<<"c","o","m","m","u","n","i","t","y","-","c","o","l","l","e","g","e">>, <<"c","o","n","t","i","n","u","i","n","g","-","e","d">>, <<"w","o","r","k","f","o","r","c","e","-","d","e","v","e","l","o","p","m","e","n","t">>>>>>>>

DictKeys(d) == {d[i][1] : i \in 1..Len(d)}

\* dict.get(key, default) of a dict written as the list of its items
DictGet(d, key, default) ==
    IF key \in DictKeys(d)
    THEN d[CHOOSE i \in 1..Len(d) : d[i][1] = key][2]
    ELSE default

\* mutation of SlugsFor: no fallback for a key that is not in the table
SlugsOfTable(key) == DictGet(dept_slugs, key, <<>>)

\* dept_slugs.get(dept_type, [dept_type])
SlugsFor(key) == DictGet(dept_slugs, key, <<key>>)

\* mutation of SlugPatterns: the bare path before the departments path
SlugPatternsBareFirst(base, slug) ==
    <<base \o <<"/">> \o slug,
      base \o <<"/","d","e","p","a","r","t","m","e","n","t","s","/">> \o slug,
      base \o <<"/","s","e","r","v","i","c","e","s","/">> \o slug,
      base \o <<"/","r","e","s","i","d","e","n","t","s","/">> \o slug>>

\* the four patterns one slug extends the list with
SlugPatterns(base, slug) ==
    <<base \o <<"/","d","e","p","a","r","t","m","e","n","t","s","/">> \o slug,
      base \o <<"/">> \o slug,
      base \o <<"/","s","e","r","v","i","c","e","s","/">> \o slug,
      base \o <<"/","r","e","s","i","d","e","n","t","s","/">> \o slug>>

RECURSIVE DepartmentPatternLoop(_, _)
DepartmentPatternLoop(base, slugs) ==
    IF slugs = <<>> THEN <<>>
    ELSE SlugPatterns(base, Head(slugs)) \o DepartmentPatternLoop(base, Tail(slugs))

\* CountyURLBuilder.get_department_patterns(base_url, dept_type)
get_department_patterns(url, key) ==
    DepartmentPatternLoop(RStripSlash(url), SlugsFor(key))

(***************************************************************************)
(* Arguments for the URL builders: county names and state codes of the     *)
(* list of counties and some others, base URLs with up to MaxSlashes       *)
(* trailing slashes, the keys of the slug table and keys outside it.       *)
(***************************************************************************)
MaxSlashes == 2

CountyNames ==
    {<<"F","r","e","d","e","r","i","c","k"," ","C","o","u","n","t","y">>, <<"P","r","i","n","c","e"," ","G","e","o","r","g","e","'","s"," ","C","o","u","n","t","y">>, <<"A","l","e","x","a","n","d","r","i","a"," ","C","i","t","y">>,
     <<"C","o","u","n","t","y"," ","L","i","n","e"," ","c","o","u","n","t","y">>, <<"C","o","u","n","t","y"," ","o","f"," ","F","r","e","d","e","r","i","c","k">>, <<"F","r","e","d","e","r","i","c","k","\t","C","o","u","n","t","y">>}

StateCodes == {<<"M","D">>, <<"V","A">>, <<"m","d">>}

Slashes(n) == [i \in 1..n |-> "/"]

BaseUrls(max) ==
    {b \o Slashes(n) : b \in {<<"h","t","t","p","s",":","/","/","f","r","e","d","e","r","i","c","k","c","o","u","n","t","y","m","d",".","g","o","v">>, <<"h","t","t","p","s",":","/","/","w","w","w",".","c","o",".","a","d","a","m","s",".","p","a",".","u","s","/","g","o","v">>},
                      n \in 0..max}

DeptKeys == DictKeys(dept_slugs) \cup {<<"p","a","r","k","s">>, <<"A","g","i","n","g">>, <<>>}

InitUrls ==
    /\ county_name \in CountyNames
    /\ state \in StateCodes
    /\ base_url \in BaseUrls(MaxSlashes)
    /\ dept_type \in DeptKeys
    /\ NoBatch
    /\ text = <<>>
    /\ soup = None
    /\ contacts = <<>>
    /\ called = "none"
    /\ emails = <<>>
    /\ returned = <<>>

\* CountyURLBuilder.get_county_patterns(county_name, state)
GetCountyPatterns ==
    /\ called = "none"
    /\ returned' = get_county_patterns(county_name, state)
    /\ called' = "get_county_patterns"
    /\ UNCHANGED <<text, soup, contacts, emails>>
    /\ UNCHANGED <<urlVars, webVars, crawlVars>>

\* CountyURLBuilder.get_department_patterns(base_url, dept_type)
GetDepartmentPatterns ==
    /\ called = "none"
    /\ returned' = get_department_patterns(base_url, dept_type)
    /\ called' = "get_department_patterns"
    /\ UNCHANGED <<text, soup, contacts, emails>>
    /\ UNCHANGED <<urlVars, webVars, crawlVars>>

NextUrls == GetCountyPatterns \/ GetDepartmentPatterns

SpecUrls == InitUrls /\ [][NextUrls]_vars

(***************************************************************************)
(* C14: the list of get_county_patterns is a function of the county name   *)
(* and the state code and no URL occurs at two positions of it, for        *)
(* ('Frederick County', 'MD') as for every other argument.                 *)
(***************************************************************************)
C14_SiteCandidatesDistinct ==
    called = "get_county_patterns" =>
        \A j, k \in 1..Len(returned) : j # k => returned[j] # returned[k]

(***************************************************************************)
(* C15: for the slugs s1..sn of the category, get_department_patterns      *)
(* returns the 4n URLs base/departments/si, base/si, base/services/si,     *)
(* base/residents/si, slug by slug in the listed order, base being         *)
(* base_url without its trailing '/'; no URL has two positions.            *)
(***************************************************************************)
C15_Base == CHOOSE b \in {SubSeq(base_url, 1, n) : n \in 0..Len(base_url)} :
                /\ \E n \in 0..MaxSlashes + 1 : b \o Slashes(n) = base_url
                /\ (b = <<>> \/ b[Len(b)] # "/")

C15_Slugs ==
    IF \E i \in 1..Len(dept_slugs) : dept_slugs[i][1] = dept_type
    THEN dept_slugs[CHOOSE i \in 1..Len(dept_slugs) : dept_slugs[i][1] = dept_type][2]
    ELSE <<dept_type>>

C15_DepartmentCandidatesInOrder ==
    called = "get_department_patterns" =>
        /\ Len(returned) = 4 * Len(C15_Slugs)
        /\ \A i \in 1..Len(C15_Slugs) :
              /\ returned[4 * i - 3] = C15_Base \o <<"/","d","e","p","a","r","t","m","e","n","t","s","/">> \o C15_Slugs[i]
              /\ returned[4 * i - 2] = C15_Base \o <<"/">> \o C15_Slugs[i]
              /\ returned[4 * i - 1] = C15_Base \o <<"/","s","e","r","v","i","c","e","s","/">> \o C15_Slugs[i]
              /\ returned[4 * i] = C15_Base \o <<"/","r","e","s","i","d","e","n","t","s","/">> \o C15_Slugs[i]
        /\ \A j, k \in 1..Len(returned) : j # k => returned[j] # returned[k]

C15_Witness ==
    /\ called = "get_department_patterns"
    /\ dept_type = <<"a","g","i","n","g">>
    /\ base_url # C15_Base
    /\ Len(returned) = 16

(***************************************************************************)
(* C16: for a key that is not in the slug table get_department_patterns    *)
(* returns exactly four URLs, departments/, bare, services/ and residents/ *)
(* followed by the key itself; the list is never empty.                    *)
(***************************************************************************)
C16_UnknownKeyIsItsOwnSlug ==
    called = "get_department_patterns" =>
        /\ returned # <<>>
        /\ dept_type \notin {dept_slugs[i][1] : i \in 1..Len(dept_slugs)} =>
              returned = <<C15_Base \o <<"/","d","e","p","a","r","t","m","e","n","t","s","/">> \o dept_type,
                           C15_Base \o <<"/">> \o dept_type,
                           C15_Base \o <<"/","s","e","r","v","i","c","e","s","/">> \o dept_type,
                           C15_Base \o <<"/","r","e","s","i","d","e","n","t","s","/">> \o dept_type>>

C16_Witness ==
    /\ called = "get_department_patterns"
    /\ dept_type = <<"p","a","r","k","s">>
    /\ Len(returned) = 4

(***************************************************************************)
(* lead_generator_v2.PragmaticLeadGenerator and lead_generator.            *)
(* LeadGenerator: the batch over the counties.  The web is an input of a   *)
(* behaviour: the set `live` of the URLs that answer 200, the others       *)
(* failing, and the set `broken` of the URLs whose page makes the          *)
(* extraction raise.  A step is one HTTP request with what follows it up   *)
(* to the next request.                                                    *)
(***************************************************************************)
\* the list of get_counties_near_frederick, the same in both generators
COUNTIES ==
    <<[name |-> <<"F","r","e","d","e","r","i","c","k"," ","C","o","u","n","t","y">>, state |-> <<"M","D">>, distance |-> 0],
      [name |-> <<"M","o","n","t","g","o","m","e","r","y"," ","C","o","u","n","t","y">>, state |-> <<"M","D">>, distance |-> 30],
      [name |-> <<"C","a","r","r","o","l","l"," ","C","o","u","n","t","y">>, state |-> <<"M","D">>, distance |-> 25],
      [name |-> <<"H","o","w","a","r","d"," ","C","o","u","n","t","y">>, state |-> <<"M","D">>, distance |-> 35],
      [name |-> <<"W","a","s","h","i","n","g","t","o","n"," ","C","o","u","n","t","y">>, state |-> <<"M","D">>, distance |-> 25],
      [name |-> <<"B","a","l","t","i","m","o","r","e"," ","C","o","u","n","t","y">>, state |-> <<"M","D">>, distance |-> 50],
      [name |-> <<"A","n","n","e"," ","A","r","u","n","d","e","l"," ","C","o","u","n","t","y">>, state |-> <<"M","D">>, distance |-> 55],
      [name |-> <<"P","r","i","n","c","e"," ","G","e","o","r","g","e","'","s"," ","C","o","u","n","t","y">>, state |-> <<"M","D">>, distance |-> 45],
      [name |-> <<"H","a","r","f","o","r","d"," ","C","o","u","n","t","y">>, state |-> <<"M","D">>, distance |-> 70],
      [name |-> <<"C","h","a","r","l","e","s"," ","C","o","u","n","t","y">>, state |-> <<"M","D">>, distance |-> 60],
      [name |-> <<"L","o","u","d","o","u","n"," ","C","o","u","n","t","y">>, state |-> <<"V","A">>, distance |-> 35],
      [name |-> <<"F","a","i","r","f","a","x"," ","C","o","u","n","t","y">>, state |-> <<"V","A">>, distance |-> 45],
      [name |-> <<"C","l","a","r","k","e"," ","C","o","u","n","t","y">>, state |-> <<"V","A">>, distance |-> 30],
      [name |-> <<"F","a","u","q","u","i","e","r"," ","C","o","u","n","t","y">>, state |-> <<"V","A">>, distance |-> 50],
      [name |-> <<"W","a","r","r","e","n"," ","C","o","u","n","t","y">>, state |-> <<"V","A">>, distance |-> 45],
      [name |-> <<"S","h","e","n","a","n","d","o","a","h"," ","C","o","u","n","t","y">>, state |-> <<"V","A">>, distance |-> 60],
      [name |-> <<"P","r","i","n","c","e"," ","W","i","l","l","i","a","m"," ","C","o","u","n","t","y">>, state |-> <<"V","A">>, distance |-> 55],
      [name |-> <<"A","r","l","i","n","g","t","o","n"," ","C","o","u","n","t","y">>, state |-> <<"V","A">>, distance |-> 50],
      [name |-> <<"A","l","e","x","a","n","d","r","i","a"," ","C","i","t","y">>, state |-> <<"V","A">>, distance |-> 55],
      [name |-> <<"A","d","a","m","s"," ","C","o","u","n","t","y">>, state |-> <<"P","A">>, distance |-> 35],
      [name |-> <<"Y","o","r","k"," ","C","o","u","n","t","y">>, state |-> <<"P","A">>, distance |-> 50],
      [name |-> <<"F","r","a","n","k","l","i","n"," ","C","o","u","n","t","y">>, state |-> <<"P","A">>, distance |-> 40],
      [name |-> <<"C","u","m","b","e","r","l","a","n","d"," ","C","o","u","n","t","y">>, state |-> <<"P","A">>, distance |-> 60],
      [name |-> <<"L","a","n","c","a","s","t","e","r"," ","C","o","u","n","t","y">>, state |-> <<"P","A">>, distance |-> 80],
      [name |-> <<"B","e","r","k","e","l","e","y"," ","C","o","u","n","t","y">>, state |-> <<"W","V">>, distance |-> 45],
      [name |-> <<"J","e","f","f","e","r","s","o","n"," ","C","o","u","n","t","y">>, state |-> <<"W","V">>, distance |-> 35],
      [name |-> <<"M","o","r","g","a","n"," ","C","o","u","n","t","y">>, state |-> <<"W","V">>, distance |-> 50]>>

RECURSIVE SelectWithin(_, _)
SelectWithin(cs, radius_miles) ==
    IF cs = <<>> THEN <<>>
    ELSE (IF Head(cs).distance <= radius_miles THEN <<Head(cs)>> ELSE <<>>)
         \o SelectWithin(Tail(cs), radius_miles)

\* get_counties_near_frederick(radius_miles)
get_counties_near_frederick(radius_miles) == SelectWithin(COUNTIES, radius_miles)

\* counties[:limit_counties] if limit_counties, limit 0 standing for None
LimitCounties(cs, limit_counties) ==
    IF limit_counties # 0
    THEN SubSeq(cs, 1, IF limit_counties < Len(cs) THEN limit_counties ELSE Len(cs))
    ELSE cs

\* dept_types of scrape_for_departments, in the order of the dict
dept_types ==
    <<<<<<"a","g","i","n","g">>, <<"D","e","p","a","r","t","m","e","n","t"," ","o","f"," ","A","g","i","n","g">>>>,
      <<<<"i","t">>, <<"I","T"," ","T","r","a","i","n","i","n","g">>>>,
      <<<<"c","y","b","e","r","s","e","c","u","r","i","t","y">>, <<"C","y","b","e","r","s","e","c","u","r","i","t","y">>>>,
      <<<<"w","o","r","k","f","o","r","c","e">>, <<"W","o","r","k","f","o","r","c","e"," ","S","e","r","v","i","c","e","s">>>>,
      <<<<"s","c","h","o","o","l","s">>, <<"P","u","b","l","i","c"," ","S","c","h","o","o","l","s">>>>,
      <<<<"l","i","b","r","a","r","y">>, <<"P","u","b","l","i","c"," ","L","i","b","r","a","r","y">>>>>>

NoUrl == <<>>

\* a page of the web: its anchors with an href, in document order, and its
\* containers
WebPage(links, containers) == [links |-> links, containers |-> containers]

Link(href, t) == [href |-> href, text |-> t]

\* BeautifulSoup(response.content, 'html.parser') of the page
SoupOf(page) ==
    Soup([n \in 1..Len(page.links) |-> page.links[n].href], page.containers)

\* urljoin(base, href) for a base without a path: an absolute href is kept,
\* any other is resolved against the root of the site
UrlJoin(base, href) ==
    IF MatchesAt(href, <<"h","t","t","p",":","/","/">>, 1) \/ MatchesAt(href, <<"h","t","t","p","s",":","/","/">>, 1) THEN href
    ELSE IF MatchesAt(href, <<"/">>, 1) THEN base \o href
    ELSE base \o <<"/">> \o href

\* dept_key in link_text or dept_name.lower() in link_text
LinkMatches(link, dept) ==
    \/ Contains(StrLower(link.text), dept[1])
    \/ Contains(StrLower(link.text), StrLower(dept[2]))

\* mutation of NextLink: every link is tried, whatever its text
NextLinkOfAnyText(links, dept, n) == IF n <= Len(links) THEN n ELSE 0

\* the first link at or after position n that is of the department, or 0
NextLink(links, dept, n) ==
    IF \E m \in n..Len(links) : LinkMatches(links[m], dept)
    THEN Min({m \in n..Len(links) : LinkMatches(links[m], dept)})
    ELSE 0

\* if i % 5 == 0: the period of the intermediate export
SAVE_EVERY == 5

\* county_data as process_county (v2) creates it; general_emails is a key of
\* the dict only once has_general_emails
NewCountyData(county) ==
    [county_name |-> county.name \o <<","," ">> \o county.state,
     distance |-> county.distance,
     county_website |-> NoUrl,
     departments |-> <<>>,
     manual_research_needed |-> <<>>,
     general_emails |-> <<>>,
     has_general_emails |-> FALSE]

\* departments[dept_name] of a department that was found, and of one that
\* was not
FoundEntry(url, info) ==
    [found |-> TRUE, url |-> url, emails |-> info.emails, contacts |-> info.contacts]

NotFoundEntry == [found |-> FALSE, url |-> NoUrl, emails |-> <<>>, contacts |-> <<>>]

\* the events of the log: session.get(url) with its outcome, the loop and
\* the department it was issued for; time.sleep(self.delay);
\* extract_contact_info of the page of url
Requested(url, ok, phase, dept) ==
    [op |-> "get", url |-> url, ok |-> ok, phase |-> phase, dept |-> dept]

Slept == [op |-> "sleep", url |-> NoUrl, ok |-> TRUE, phase |-> "sleep", dept |-> 0]

Extracted(url, ok, dept) ==
    [op |-> "extract", url |-> url, ok |-> ok, phase |-> "extract", dept |-> dept]

\* the pages of the web
Site1 == <<"h","t","t","p","s",":","/","/","f","r","e","d","e","r","i","c","k","c","o","u","n","t","y","m","d",".","g","o","v">>
Site2 == <<"h","t","t","p","s",":","/","/","w","w","w",".","m","o","n","t","g","o","m","e","r","y","c","o","u","n","t","y","m","d",".","g","o","v">>

LivePool ==
    {Site1, Site2,
     Site1 \o <<"/","d","e","p","a","r","t","m","e","n","t","s","/","a","g","i","n","g">>, Site1 \o <<"/","s","e","n","i","o","r","s">>,
     Site1 \o <<"/","c","o","n","t","a","c","t">>}

\* a page of a site that does not answer does not answer either
Webs == {l \in SUBSET LivePool : Site1 \notin l => l \subseteq {Site2}}

BreakPool == {Site2, Site1 \o <<"/","d","e","p","a","r","t","m","e","n","t","s","/","a","g","i","n","g">>, Site1 \o <<"/","c","o","n","t","a","c","t">>}

PageOf(url) ==
    IF url = Site1
    THEN WebPage(<<Link(<<"/","c","o","n","t","a","c","t">>, <<"V","i","s","i","t"," ","u","s">>),
                   Link(<<"m","a","i","l","t","o",":","i","n","f","o","@","f","r","e","d","e","r","i","c","k","c","o","u","n","t","y","m","d",".","g","o","v">>, <<"E","m","a","i","l"," ","t","h","e"," ","c","o","u","n","t","y">>),
                   Link(Site1 \o <<"/","c","o","n","t","a","c","t">>, <<"P","u","b","l","i","c"," ","L","i","b","r","a","r","y">>)>>,
                 <<>>)
    ELSE IF url = Site1 \o <<"/","d","e","p","a","r","t","m","e","n","t","s","/","a","g","i","n","g">>
    THEN WebPage(<<Link(<<"m","a","i","l","t","o",":","a","g","i","n","g","@","f","r","e","d","e","r","i","c","k","c","o","u","n","t","y","m","d",".","g","o","v">>, <<"E","m","a","i","l">>)>>,
                 <<Container(<<"s","t","a","f","f">>, <<Element("p", <<"J","a","n","e"," ","S","m","i","t","h",","," ","D","i","r","e","c","t","o","r">>)>>)>>)
    ELSE WebPage(<<>>, <<>>)

\* get_county_patterns, get_department_patterns and extract_contact_info are
\* functions of their arguments alone: their values over the counties of
\* the list and over the pages of the web, computed once
CountyPatternsOf ==
    [n \in 1..Len(COUNTIES) |-> get_county_patterns(COUNTIES[n].name, COUNTIES[n].state)]

DepartmentPatternsOf ==
    [url \in LivePool |->
        [n \in 1..Len(dept_types) |-> get_department_patterns(url, dept_types[n][1])]]

ContactInfoOf == [url \in LivePool |-> V2_extract_contact_info(SoupOf(PageOf(url)))]

\* the position of a county in the list of get_counties_near_frederick
CountyIndex(county) == CHOOSE n \in 1..Len(COUNTIES) : COUNTIES[n] = county

\* test_url(url): the soup of the page if the URL answers 200, None otherwise
test_url(url) == IF url \in live THEN SoupOf(PageOf(url)) ELSE None

\* mutation of AfterFailure: a loop that passes over a candidate
AfterFailureSkipping(n) == n + 2

\* the index the for loop over the candidates goes on with after a failure
AfterFailure(n) == n + 1

\* mutation of ManualEntities: the chamber of commerce is left out
ManualEntitiesWithoutChamber == <<"Retirement Communities", "Hospitals">>

\* the three items process_county adds for the entities it does not look for
ManualEntities == <<"Retirement Communities", "Hospitals", "Chamber of Commerce">>

(***************************************************************************)
(* The arguments of run and the web of a behaviour: up to MaxCounties      *)
(* counties within 200 miles, or every county within 30 miles; any web of   *)
(* live URLs of LivePool and of broken pages among the live ones of        *)
(* BreakPool.  The requests of lead_generator go to a search engine: its   *)
(* process_county is represented by its outcome, a county_data or an       *)
(* exception.                                                              *)
(***************************************************************************)
MaxCounties == 5

RunArguments(max) ==
    {[radius_miles |-> 200, limit_counties |-> n] : n \in 1..max}
    \cup {[radius_miles |-> 30, limit_counties |-> 0]}

NoPage ==
    /\ text = <<>> /\ soup = None /\ contacts = <<>>
    /\ called = "none" /\ emails = <<>> /\ returned = <<>>

InitBatch ==
    /\ NoPage
    /\ NoUrlArguments
    /\ generator \in {"lead_generator_v2", "lead_generator"}
    /\ \E args \in RunArguments(MaxCounties) :
          counties = LimitCounties(get_counties_near_frederick(args.radius_miles),
                                   args.limit_counties)
    /\ live \in (IF generator = "lead_generator_v2" THEN Webs ELSE {{}})
    /\ broken \in SUBSET (live \cap BreakPool)
    /\ response = NoResponse
    /\ pc = "run" /\ county_no = 0 /\ all_data = <<>> /\ county_data = <<>>
    /\ county_url = NoUrl /\ dept_no = 0 /\ patterns = <<>> /\ trial = 0
    /\ departments = <<>> /\ log = <<>> /\ outcomes = <<>> /\ exports = <<>>

\* mutation of Returns: the period counts the counties appended, not the
\* counties of the list
ReturnsCountingAppended(cd, i) ==
    /\ county_data' = cd
    /\ all_data' = Append(all_data, cd)
    /\ outcomes' = Append(outcomes, "returned")
    /\ pc' = IF (Len(all_data) + 1) % SAVE_EVERY = 0
             THEN "intermediate_export" ELSE "run"

\* process_county of county number i of the list returned cd: run appends
\* it and, every SAVE_EVERY counties, exports what it has
Returns(cd, i) ==
    /\ county_data' = cd
    /\ all_data' = Append(all_data, cd)
    /\ outcomes' = Append(outcomes, "returned")
    /\ pc' = IF i % SAVE_EVERY = 0 THEN "intermediate_export" ELSE "run"

\* mutation of Raises: an exception of process_county that leaves run
RaisesOutOfRun ==
    /\ outcomes' = Append(outcomes, "raised")
    /\ pc' = "raised"
    /\ UNCHANGED all_data

\* process_county raised: except Exception in run, continue
Raises ==
    /\ outcomes' = Append(outcomes, "raised")
    /\ pc' = "run"
    /\ UNCHANGED all_data

\* departments[dept_name] = entry, then the next department or the end of
\* scrape_for_departments and of process_county
Recorded(entry) ==
    /\ departments' = Append(departments,
                             [name |-> dept_types[dept_no][2], entry |-> entry])
    /\ IF dept_no < Len(dept_types)
       THEN /\ dept_no' = dept_no + 1
            /\ patterns' = DepartmentPatternsOf[county_url][dept_no + 1]
            /\ trial' = 1
            /\ pc' = "direct"
            /\ UNCHANGED <<county_data, all_data, outcomes>>
       ELSE /\ Returns([county_data EXCEPT
                          !.departments = departments',
                          !.manual_research_needed = @ \o ManualEntities],
                       county_no)
            /\ UNCHANGED <<dept_no, patterns, trial>>

\* the page of a department answered 200: extract_contact_info on it, the
\* entry of the department, time.sleep; lg is the log with the request
DeptFetched(url, lg) ==
    IF url \in broken
    THEN /\ log' = Append(lg, Extracted(url, FALSE, dept_no))
         /\ Raises
         /\ UNCHANGED <<county_data, dept_no, patterns, trial, departments>>
    ELSE /\ log' = lg \o <<Extracted(url, TRUE, dept_no), Slept>>
         /\ Recorded(FoundEntry(url, ContactInfoOf[url]))

\* run (v2): the next county of the list, process_county up to its first
\* request
V2_RunCounty ==
    /\ generator = "lead_generator_v2"
    /\ pc = "run"
    /\ county_no < Len(counties)
    /\ county_no' = county_no + 1
    /\ county_data' = NewCountyData(counties[county_no + 1])
    /\ patterns' = CountyPatternsOf[CountyIndex(counties[county_no + 1])]
    /\ trial' = 1
    /\ pc' = "find_county_website"
    /\ log' = <<>>
    /\ county_url' = NoUrl
    /\ dept_no' = 0
    /\ departments' = <<>>
    /\ UNCHANGED <<all_data, outcomes, exports>>
    /\ UNCHANGED <<pageVars, urlVars, webVars>>

\* find_county_website: test_url of the next pattern
V2_FindCountyWebsite ==
    /\ pc = "find_county_website"
    /\ trial <= Len(patterns)
    /\ IF test_url(patterns[trial]).present
       THEN /\ log' = log \o <<Requested(patterns[trial], TRUE, "site", 0), Slept>>
            /\ county_url' = patterns[trial]
            /\ pc' = "main_page"
            /\ UNCHANGED trial
       ELSE /\ log' = Append(log, Requested(patterns[trial], FALSE, "site", 0))
            /\ trial' = AfterFailure(trial)
            /\ UNCHANGED <<county_url, pc>>
    /\ UNCHANGED <<county_no, all_data, county_data, dept_no, patterns, departments,
                   outcomes, exports>>
    /\ UNCHANGED <<pageVars, urlVars, webVars>>

\* find_county_website returns None, None: process_county returns early
V2_CountyWebsiteNotFound ==
    /\ pc = "find_county_website"
    /\ trial > Len(patterns)
    /\ Returns([county_data EXCEPT !.manual_research_needed = <<"County Website">>],
               county_no)
    /\ UNCHANGED <<county_no, county_url, dept_no, patterns, trial, departments,
                   log, exports>>
    /\ UNCHANGED <<pageVars, urlVars, webVars>>

\* process_county after the website was found: extract_contact_info of the
\* main page, then scrape_for_departments up to its first request
V2_MainPage ==
    /\ pc = "main_page"
    /\ IF county_url \in broken
       THEN /\ log' = Append(log, Extracted(county_url, FALSE, 0))
            /\ county_data' = [county_data EXCEPT !.county_website = county_url]
            /\ Raises
            /\ UNCHANGED <<dept_no, patterns, trial>>
       ELSE /\ log' = Append(log, Extracted(county_url, TRUE, 0))
            /\ county_data' =
                  [county_data EXCEPT
                     !.county_website = county_url,
                     !.general_emails = ContactInfoOf[county_url].emails,
                     !.has_general_emails = TRUE]
            /\ dept_no' = 1
            /\ patterns' = DepartmentPatternsOf[county_url][1]
            /\ trial' = 1
            /\ pc' = "direct"
            /\ UNCHANGED <<all_data, outcomes>>
    /\ UNCHANGED <<county_no, county_url, departments, exports>>
    /\ UNCHANGED <<pageVars, urlVars, webVars>>

\* scrape_for_departments, the direct URLs: test_url of the next pattern
V2_TryDepartmentUrl ==
    /\ pc = "direct"
    /\ trial <= Len(patterns)
    /\ IF test_url(patterns[trial]).present
       THEN DeptFetched(patterns[trial],
                        Append(log, Requested(patterns[trial], TRUE, "direct", dept_no)))
       ELSE /\ log' = Append(log, Requested(patterns[trial], FALSE, "direct", dept_no))
            /\ IF AfterFailure(trial) > Len(patterns)
               THEN trial' = 1 /\ pc' = "links"
               ELSE trial' = AfterFailure(trial) /\ UNCHANGED pc
            /\ UNCHANGED <<all_data, county_data, dept_no, patterns, departments, outcomes>>
    /\ UNCHANGED <<county_no, county_url, exports>>
    /\ UNCHANGED <<pageVars, urlVars, webVars>>

\* scrape_for_departments, the links of the main page: test_url of the next
\* link whose text names the department
V2_TryDepartmentLink ==
    /\ pc = "links"
    /\ NextLink(PageOf(county_url).links, dept_types[dept_no], trial) # 0
    /\ \E n \in {NextLink(PageOf(county_url).links, dept_types[dept_no], trial)} :
       \E url \in {UrlJoin(county_url, PageOf(county_url).links[n].href)} :
          IF test_url(url).present
          THEN DeptFetched(url, Append(log, Requested(url, TRUE, "link", dept_no)))
          ELSE /\ log' = Append(log, Requested(url, FALSE, "link", dept_no))
               /\ trial' = n + 1
               /\ UNCHANGED <<pc, all_data, county_data, dept_no, patterns, departments,
                              outcomes>>
    /\ UNCHANGED <<county_no, county_url, exports>>
    /\ UNCHANGED <<pageVars, urlVars, webVars>>

\* scrape_for_departments: if not found, the entry with found False
V2_DepartmentNotFound ==
    /\ pc = "links"
    /\ NextLink(PageOf(county_url).links, dept_types[dept_no], trial) = 0
    /\ Recorded(NotFoundEntry)
    /\ UNCHANGED <<county_no, county_url, log, exports>>
    /\ UNCHANGED <<pageVars, urlVars, webVars>>

\* run (v2): if i % 5 == 0, export_to_excel(all_data, progress file); an
\* exception of the export is caught like one of process_county
V2_IntermediateExport ==
    /\ generator = "lead_generator_v2"
    /\ pc = "intermediate_export"
    /\ \E ok \in BOOLEAN :
          exports' = Append(exports, [file |-> "progress", after |-> county_no,
                                      data |-> all_data, ok |-> ok])
    /\ pc' = "run"
    /\ UNCHANGED <<county_no, all_data, county_data, county_url, dept_no, patterns,
                   trial, departments, log, outcomes>>
    /\ UNCHANGED <<pageVars, urlVars, webVars>>

\* run (v2): the final export after the loop
V2_FinalExport ==
    /\ generator = "lead_generator_v2"
    /\ pc = "run"
    /\ county_no = Len(counties)
    /\ \E ok \in BOOLEAN :
          /\ exports' = Append(exports, [file |-> "final", after |-> county_no,
                                         data |-> all_data, ok |-> ok])
          /\ pc' = IF ok THEN "done" ELSE "raised"
    /\ UNCHANGED <<county_no, all_data, county_data, county_url, dept_no, patterns,
                   trial, departments, log, outcomes>>
    /\ UNCHANGED <<pageVars, urlVars, webVars>>

\* county_data of process_county of lead_generator, without the fields it
\* fills from the search results
LG_CountyData(county) ==
    [county_name |-> county.name \o <<","," ">> \o county.state,
     distance |-> county.distance]

\* run (lead_generator): the next county of the list; process_county
\* returns its county_data or raises
LG_RunCounty ==
    /\ generator = "lead_generator"
    /\ pc = "run"
    /\ county_no < Len(counties)
    /\ county_no' = county_no + 1
    /\ \E ok \in BOOLEAN :
          IF ok THEN Returns(LG_CountyData(counties[county_no + 1]), county_no + 1)
          ELSE Raises /\ UNCHANGED county_data
    /\ UNCHANGED <<county_url, dept_no, patterns, trial, departments, log, exports>>
    /\ UNCHANGED <<pageVars, urlVars, webVars>>

\* run (lead_generator): if i % 5 == 0, export_to_excel(all_data,
\* intermediate file), its exception caught
LG_IntermediateExport ==
    /\ generator = "lead_generator"
    /\ pc = "intermediate_export"
    /\ \E ok \in BOOLEAN :
          exports' = Append(exports, [file |-> "intermediate", after |-> county_no,
                                      data |-> all_data, ok |-> ok])
    /\ pc' = "run"
    /\ UNCHANGED <<county_no, all_data, county_data, county_url, dept_no, patterns,
                   trial, departments, log, outcomes>>
    /\ UNCHANGED <<pageVars, urlVars, webVars>>

\* run (lead_generator): the final export after the loop
LG_FinalExport ==
    /\ generator = "lead_generator"
    /\ pc = "run"
    /\ county_no = Len(counties)
    /\ \E ok \in BOOLEAN :
          /\ exports' = Append(exports, [file |-> "final", after |-> county_no,
                                         data |-> all_data, ok |-> ok])
          /\ pc' = IF ok THEN "done" ELSE "raised"
    /\ UNCHANGED <<county_no, all_data, county_data, county_url, dept_no, patterns,
                   trial, departments, log, outcomes>>
    /\ UNCHANGED <<pageVars, urlVars, webVars>>

NextBatch ==
    \/ V2_RunCounty
    \/ V2_FindCountyWebsite
    \/ V2_CountyWebsiteNotFound
    \/ V2_MainPage
    \/ V2_TryDepartmentUrl
    \/ V2_TryDepartmentLink
    \/ V2_DepartmentNotFound
    \/ V2_IntermediateExport
    \/ V2_FinalExport
    \/ LG_RunCounty
    \/ LG_IntermediateExport
    \/ LG_FinalExport

SpecBatch == InitBatch /\ [][NextBatch]_vars

\* run is a sequential program: it takes its next step as long as it has one
FairBatch == SpecBatch /\ WF_vars(NextBatch)

(***************************************************************************)
(* The requests of the county being processed, as the log has them.        *)
(***************************************************************************)
\* the requests find_county_website has made
SiteRequests == SelectSeq(log, LAMBDA e : e.op = "get" /\ e.phase = "site")

\* the requests the direct-URL loop has made for department number n
DirectRequests(n) ==
    SelectSeq(log, LAMBDA e : e.op = "get" /\ e.phase = "direct" /\ e.dept = n)

\* reqs are the first candidates of cands, one request each, in the order of
\* the list; a request succeeded exactly if its URL is live, and none
\* follows one that succeeded
InRankOrder(reqs, cands) ==
    /\ Len(reqs) <= Len(cands)
    /\ \A n \in 1..Len(reqs) :
          /\ reqs[n].url = cands[n]
          /\ reqs[n].ok <=> (cands[n] \in live)
          /\ reqs[n].ok => n = Len(reqs)

\* the last request of reqs succeeded
Succeeded(reqs) == Len(reqs) > 0 /\ reqs[Len(reqs)].ok

\* C17 (find_county_website): the candidates of get_county_patterns are
\* requested in the order of the list, every request before a successful one
\* failed, no request follows it, and the URL the method returns is the one
\* of the successful request
C17_SiteInRankOrder(reqs) ==
    /\ InRankOrder(reqs, get_county_patterns(counties[county_no].name,
                                             counties[county_no].state))
    /\ Succeeded(reqs) <=> county_url # NoUrl
    /\ Succeeded(reqs) => county_url = reqs[Len(reqs)].url

\* C17 (scrape_for_departments): the same of the candidates of
\* get_department_patterns for department number n; the entry of the
\* department has the URL and the page of the successful request
C17_DirectInRankOrder(n, reqs) ==
    Len(reqs) > 0 =>
        /\ county_url # NoUrl
        /\ InRankOrder(reqs, get_department_patterns(county_url, dept_types[n][1]))
        /\ Succeeded(reqs) /\ n <= Len(departments) =>
              departments[n].entry =
                 FoundEntry(reqs[Len(reqs)].url,
                            V2_extract_contact_info(SoupOf(PageOf(reqs[Len(reqs)].url))))

\* C17: the trial runner tries the URL candidates in list order and stops at
\* the first that answers 200: in find_county_website and in the direct-URL
\* loop of scrape_for_departments every candidate before the successful one
\* was requested and failed, none after it is requested, and the URL and
\* page returned are those of the successful candidate
C17_CandidatesInRankOrder ==
    generator = "lead_generator_v2" /\ county_no > 0 =>
        /\ C17_SiteInRankOrder(SiteRequests)
        /\ \A n \in 1..Len(dept_types) : C17_DirectInRankOrder(n, DirectRequests(n))

\* the second county's website answered at the third candidate, after the
\* first county's Department of Aging was found at its sixth
C17_Witness ==
    /\ generator = "lead_generator_v2"
    /\ county_no = 2
    /\ Len(SiteRequests) = 3
    /\ Succeeded(SiteRequests)
    /\ Len(all_data) = 1
    /\ Len(all_data[1].departments) = Len(dept_types)
    /\ all_data[1].departments[1].entry.url = Site1 \o <<"/","s","e","n","i","o","r","s">>

\* the departments of cd have one record for each category of dept_types,
\* with a found flag, and the record of a category that was not found has
\* no URL, no emails and no contacts
EveryCategoryFlagged(cd) ==
    /\ Len(cd.departments) = Len(dept_types)
    /\ \A n \in 1..Len(dept_types) :
          /\ cd.departments[n].name = dept_types[n][2]
          /\ cd.departments[n].entry.found \in BOOLEAN
          /\ ~cd.departments[n].entry.found => cd.departments[n].entry = NotFoundEntry

\* C18: for every county process_county has processed, the result maps
\* every department category to a record with a found flag, with found
\* False, no URL, no emails and no contacts for a category that was not
\* discovered, also when the website of the county was not found
C18_EveryCategoryHasFoundFlag ==
    generator = "lead_generator_v2" =>
        \A n \in 1..Len(all_data) : EveryCategoryFlagged(all_data[n])

(***************************************************************************)
(* The batch: what run has attempted and what it has kept.                 *)
(***************************************************************************)
\* the numbers of the counties whose process_county returned, in the order
\* of the list
ProcessedCounties ==
    SelectSeq([n \in 1..Len(outcomes) |-> n], LAMBDA n : outcomes[n] = "returned")

\* county_data['county_name'] of county number n of the list
CountyLabel(n) == counties[n].name \o <<","," ">> \o counties[n].state

\* run has made its final export
FinalExportMade == Len(exports) > 0 /\ exports[Len(exports)].file = "final"

\* the counties are attempted one after the other: county_no is the number
\* of the county attempted last, and every county before it has its outcome
C19_AttemptedInOrder ==
    /\ county_no \in 0..Len(counties)
    /\ Len(outcomes) \in {county_no - 1, county_no}
    /\ Len(outcomes) < county_no <=>
          pc \in {"find_county_website", "main_page", "direct", "links"}

\* all_data is the data of the counties processed without exception, in the
\* order of the list
C19_KeptData(processed) ==
    /\ Len(all_data) = Len(processed)
    /\ \A n \in 1..Len(processed) : all_data[n].county_name = CountyLabel(processed[n])

\* run ends only by its final export, made after every county was attempted
\* and with the data of every county processed without exception
C19_FinalExportLast ==
    /\ pc \in {"done", "raised"} <=> FinalExportMade
    /\ FinalExportMade =>
          /\ Len(outcomes) = Len(counties)
          /\ exports[Len(exports)].data = all_data
          /\ exports[Len(exports)].after = Len(counties)

\* a step of run attempts no county, or the next county of the list
C19_NextCounty == county_no' = county_no \/ county_no' = county_no + 1

\* C19: an exception raised while one county is processed does not stop the
\* batch: run attempts every county of the list once, in the order of the
\* list, skips a county whose processing raises, goes on with the later
\* ones, and always reaches the final export, with the data of every county
\* that was processed without exception
C19_BatchGoesOn ==
    /\ [](C19_AttemptedInOrder /\ C19_KeptData(ProcessedCounties) /\ C19_FinalExportLast)
    /\ [][C19_NextCounty]_vars
    /\ <>FinalExportMade

\* the processing of the second county raised, the third county was
\* processed after it, and the final export has the data of the first and
\* the third
C19_Witness ==
    /\ generator = "lead_generator_v2"
    /\ FinalExportMade
    /\ Len(outcomes) >= 3
    /\ outcomes[1] = "returned" /\ outcomes[2] = "raised" /\ outcomes[3] = "returned"
    /\ Len(exports[Len(exports)].data) >= 2
    /\ exports[Len(exports)].data[2].county_name = CountyLabel(3)

\* the extractions of the county attempted last that raised
FailedExtractions == SelectSeq(log, LAMBDA e : e.op = "extract" /\ ~e.ok)

\* the page of a failed extraction counts as not found: a department it was
\* fetched for has the record of a department that was not found, unless a
\* later page of the department was found
TreatedAsNotFound(e, cd) ==
    e.dept > 0 =>
        /\ e.dept <= Len(cd.departments)
        /\ cd.departments[e.dept].entry.url # e.url

\* C20: an exception raised while extract_contact_info works on one fetched
\* page is caught, that page alone is treated as not found, the other
\* departments of the county are still tried, and the county is in the
\* results with its remaining data
C20_ExtractionFailureContained ==
    /\ generator = "lead_generator_v2"
    /\ county_no > 0
    /\ Len(outcomes) = county_no
    /\ Len(FailedExtractions) > 0
    => /\ outcomes[county_no] = "returned"
       /\ Len(all_data) > 0
       /\ all_data[Len(all_data)].county_name = CountyLabel(county_no)
       /\ Len(all_data[Len(all_data)].departments) = Len(dept_types)
       /\ \A n \in 1..Len(FailedExtractions) :
             TreatedAsNotFound(FailedExtractions[n], all_data[Len(all_data)])

(***************************************************************************)
(* The fetchers: lead_generator_v2.PragmaticLeadGenerator.test_url with    *)
(* the extraction its callers run on what it returns, and                  *)
(* lead_generator.LeadGenerator.scrape_page.  response is what             *)
(* session.get(url) does: it raises, or returns a status code and a body.  *)
(***************************************************************************)
LG_titles ==
    <<<<"D","i","r","e","c","t","o","r">>, <<"C","o","o","r","d","i","n","a","t","o","r">>, <<"M","a","n","a","g","e","r">>, <<"A","d","m","i","n","i","s","t","r","a","t","o","r">>,
      <<"C","h","i","e","f">>, <<"O","f","f","i","c","e","r">>, <<"S","p","e","c","i","a","l","i","s","t">>, <<"S","u","p","e","r","v","i","s","o","r">>>>

\* [:\s,]
LG_IsTitleSep(c) == c \in {":", ","} \/ IsSpace(c)

\* no match
NoMatch == [found |-> FALSE, group |-> <<>>, end |-> 0]

Match(group, end) == [found |-> TRUE, group |-> group, end |-> end]

\* the two words \s+ apart whose first starts at b and ends before e1, each
\* of at least two characters, the second starting at b2 and ending before e2
LG_two_words(t, b, e1, b2, e2) ==
    IF e1 - b >= 2 /\ b2 > e1 /\ e2 - b2 >= 2
    THEN Match(SubSeq(t, b, e2 - 1), e2)
    ELSE NoMatch

\* ([A-Z][a-z]+\s+[A-Z][a-z]+) under (?i), from b: two runs of letters
LG_words_any_case_from(t, b, e1, b2) ==
    LG_two_words(t, b, e1, b2, RunEnd(t, b2, IsAlpha))

LG_words_any_case_to(t, b, e1) ==
    LG_words_any_case_from(t, b, e1, RunEnd(t, e1, IsSpace))

LG_words_any_case(t, b) == LG_words_any_case_to(t, b, RunEnd(t, b, IsAlpha))

\* (?i)(?:titles)[:\s,]+([A-Z][a-z]+\s+[A-Z][a-z]+) matched at p
LG_after_title_sep(t, e, b) ==
    IF b > e THEN LG_words_any_case(t, b) ELSE NoMatch

LG_after_title(t, e) == LG_after_title_sep(t, e, RunEnd(t, e, LG_IsTitleSep))

LG_title_first(t, p, ks) ==
    IF ks = {} THEN NoMatch ELSE LG_after_title(t, p + Len(LG_titles[Min(ks)]))

LG_title_first_at(t, p) ==
    LG_title_first(t, p, {k \in 1..Len(LG_titles) :
                             MatchesAt(StrLower(t), StrLower(LG_titles[k]), p)})

\* [A-Z][a-z]+ from b: the end of the word, or b if there is none
LG_cap_word_end(t, b) ==
    IF b <= Len(t) /\ IsUpper(t[b]) /\ RunEnd(t, b + 1, IsLower) > b + 1
    THEN RunEnd(t, b + 1, IsLower)
    ELSE b

\* ([A-Z][a-z]+\s+[A-Z][a-z]+)[,\s]+(?:titles) matched at p
LG_name_title(t, p, e2, q) ==
    IF q > e2 /\ \E k \in 1..Len(LG_titles) : MatchesAt(t, LG_titles[k], q)
    THEN Match(SubSeq(t, p, e2 - 1),
               q + Len(LG_titles[Min({k \in 1..Len(LG_titles) :
                                         MatchesAt(t, LG_titles[k], q)})]))
    ELSE NoMatch

LG_name_second(t, p, b2, e2) ==
    IF e2 > b2 THEN LG_name_title(t, p, e2, RunEnd(t, e2, IsCommaSpace)) ELSE NoMatch

LG_name_space(t, p, e1, b2) ==
    IF b2 > e1 THEN LG_name_second(t, p, b2, LG_cap_word_end(t, b2)) ELSE NoMatch

LG_name_first(t, p, e1) ==
    IF e1 > p THEN LG_name_space(t, p, e1, RunEnd(t, e1, IsSpace)) ELSE NoMatch

LG_name_first_at(t, p) == LG_name_first(t, p, LG_cap_word_end(t, p))

\* re.findall of the first pattern, from pos
RECURSIVE LG_find_title_first(_, _)
LG_find_title_first(t, pos) ==
    IF pos > Len(t) THEN <<>>
    ELSE IF LG_title_first_at(t, pos).found
    THEN <<LG_title_first_at(t, pos).group>>
         \o LG_find_title_first(t, LG_title_first_at(t, pos).end)
    ELSE LG_find_title_first(t, pos + 1)

\* re.findall of the second pattern, from pos
RECURSIVE LG_find_name_first(_, _)
LG_find_name_first(t, pos) ==
    IF pos > Len(t) THEN <<>>
    ELSE IF LG_name_first_at(t, pos).found
    THEN <<LG_name_first_at(t, pos).group>>
         \o LG_find_name_first(t, LG_name_first_at(t, pos).end)
    ELSE LG_find_name_first(t, pos + 1)

\* extract_names_near_titles(text, titles): list(set(names))
LG_extract_names_near_titles(t) ==
    ListOfSet(SeqToSet(LG_find_title_first(t, 1) \o LG_find_name_first(t, 1)))

LG_link_keywords ==
    {<<"c","o","n","t","a","c","t">>, <<"a","b","o","u","t">>, <<"s","t","a","f","f">>, <<"d","i","r","e","c","t","o","r","y">>, <<"t","e","a","m">>, <<"l","e","a","d","e","r","s","h","i","p">>}

\* the links of scrape_page: the hrefs with a keyword, joined to the URL of
\* the page, of the same netloc; the anchors have no text
RECURSIVE LG_relevant_links(_, _)
LG_relevant_links(url, anchors) ==
    IF anchors = <<>> THEN <<>>
    ELSE (IF /\ \E kw \in LG_link_keywords : Contains(StrLower(Head(anchors)), kw)
             /\ MatchesAt(UrlJoin(url, Head(anchors)), url \o <<"/">>, 1)
          THEN <<UrlJoin(url, Head(anchors))>> ELSE <<>>)
         \o LG_relevant_links(url, Tail(anchors))

\* test_url on a response: the soup of the body if the request returned
\* with status 200, None otherwise
V2_test_url(r) == IF ~r.raised /\ r.status_code = 200 THEN r.content ELSE None

\* what a caller of test_url takes from the page: if dept_soup:
\* extract_contact_info(dept_soup)
V2_page_info(s) ==
    IF s.present THEN V2_extract_contact_info(s)
    ELSE [contacts |-> <<>>, emails |-> <<>>]

(***************************************************************************)
(* The responses: an exception, or one of the status codes of StatusCodes  *)
(* with a body of up to MaxBodyLines lines of BodyLinePool.                *)
(***************************************************************************)
MaxBodyLines == 2

StatusCodes == {200, 404, 500}

BodyLinePool ==
    {<<"J","a","n","e"," ","S","m","i","t","h",","," ","D","i","r","e","c","t","o","r"," ">>, <<"D","i","r","e","c","t","o","r",":"," ","J","o","h","n"," ","A","d","a","m","s"," ">>,
     <<"W","r","i","t","e"," ","t","o"," ","w","e","b","m","a","s","t","e","r","@","c","o",".","g","o","v"," ">>, <<"P","a","g","e"," ","n","o","t"," ","f","o","u","n","d"," ">>}

BodyOf(lines) ==
    Soup(IF lines = <<>> THEN <<>> ELSE <<<<"/","c","o","n","t","a","c","t">>, <<"m","a","i","l","t","o",":","h","e","l","p","@","c","o",".","g","o","v">>>>,
         <<Container(<<"s","t","a","f","f">>, [n \in 1..Len(lines) |-> Element("p", lines[n])])>>)

Bodies(max) ==
    {BodyOf(lines) : lines \in UNION {[1..n -> BodyLinePool] : n \in 0..max}}

Responses(max) ==
    {[raised |-> TRUE, status_code |-> 0, content |-> None]}
    \cup {[raised |-> FALSE, status_code |-> c, content |-> b] :
             c \in StatusCodes, b \in Bodies(max)}

InitFetch ==
    /\ NoPage
    /\ NoUrlArguments
    /\ generator = "none" /\ counties = <<>> /\ live = {} /\ broken = {}
    /\ response \in Responses(MaxBodyLines)
    /\ pc = "idle" /\ county_no = 0 /\ all_data = <<>> /\ county_data = <<>>
    /\ county_url = Site1 /\ dept_no = 0 /\ patterns = <<>> /\ trial = 0
    /\ departments = <<>> /\ log = <<>> /\ outcomes = <<>> /\ exports = <<>>

\* dept_soup = self.test_url(county_url) and what scrape_for_departments
\* takes from it
V2_TestUrl ==
    /\ called = "none"
    /\ called' = "lead_generator_v2.test_url"
    /\ soup' = V2_test_url(response)
    /\ emails' = V2_page_info(V2_test_url(response)).emails
    /\ contacts' = V2_page_info(V2_test_url(response)).contacts
    /\ UNCHANGED <<text, returned>>
    /\ UNCHANGED <<urlVars, webVars, crawlVars>>

\* result = self.scrape_page(county_url): text, emails, names and
\* relevant_links of the result
LG_ScrapePage ==
    /\ called = "none"
    /\ called' = "lead_generator.scrape_page"
    /\ IF response.raised
       THEN text' = <<>> /\ emails' = <<>> /\ contacts' = <<>> /\ returned' = <<>>
       ELSE /\ text' = PageText(response.content.containers)
            /\ emails' \in LG_extract_emails(PageText(response.content.containers))
            /\ contacts' \in LG_extract_names_near_titles(PageText(response.content.containers))
            /\ returned' = LG_relevant_links(county_url, response.content.anchors)
    /\ UNCHANGED soup
    /\ UNCHANGED <<urlVars, webVars, crawlVars>>

NextFetch == V2_TestUrl \/ LG_ScrapePage

SpecFetch == InitFetch /\ [][NextFetch]_vars

\* the fetch failed: the request raised or the status is not 200
FetchFailed == response.raised \/ response.status_code # 200

\* C21: a failed fetch (an exception, a timeout, a response other than 200)
\* yields no content: neither test_url nor scrape_page hands the body of
\* such a response to the extractors, and the page contributes no emails
\* and no contacts
C21_FailedFetchYieldsNothing ==
    called \in {"lead_generator_v2.test_url", "lead_generator.scrape_page"}
    /\ FetchFailed
    => /\ emails = <<>>
       /\ contacts = <<>>
       /\ text = <<>>
       /\ soup = None

(***************************************************************************)
(* The strategies of extract_names_with_titles, each candidate with the    *)
(* strategy that emitted it: "structured" (_extract_from_structured_html), *)
(* "inline" (patterns 1 and 2 of _extract_from_text_patterns) and          *)
(* "adjacency" (its pattern 3), and the line of the text it is from        *)
(* (0 for a structured candidate).                                         *)
(***************************************************************************)
Tagged(cs, strategy, line_no) ==
    [n \in 1..Len(cs) |->
        [name |-> cs[n].name, title |-> cs[n].title,
         strategy |-> strategy, line_no |-> line_no]]

Untagged(cs) == [n \in 1..Len(cs) |-> Contact(cs[n].name, cs[n].title)]

\* the body of the loop over the lines, for line i stripped
TaggedLine(lines, i, line) ==
    IF line = <<>> THEN <<>>
    ELSE Tagged(Pattern1Contacts(line, StrLower(line), 1) \o Pattern2Contacts(line),
                "inline", i)
         \o Tagged(Pattern3Contacts(lines, i, line), "adjacency", i)

RECURSIVE TaggedTextLoop(_, _)
TaggedTextLoop(lines, i) ==
    IF i > Len(lines) THEN <<>>
    ELSE TaggedLine(lines, i, Strip(lines[i])) \o TaggedTextLoop(lines, i + 1)

\* the list `contacts` of extract_names_with_titles before it is
\* deduplicated, tagged
ES_tagged_candidates(t, s) ==
    (IF s.present THEN Tagged(_extract_from_structured_html(s), "structured", 0)
     ELSE <<>>)
    \o TaggedTextLoop(SplitOn(t, "\n"), 1)

(***************************************************************************)
(* Texts for the strategies: up to MaxStrategyLines lines of               *)
(* StrategyLinePool, with or without a staff container in the page.        *)
(***************************************************************************)
MaxStrategyLines == 3

StrategyLinePool ==
    {<<"D","i","r","e","c","t","o","r",":"," ","J","a","n","e"," ","S","m","i","t","h">>, <<"J","a","n","e"," ","S","m","i","t","h">>, <<"C","o","m","p","l","i","a","n","c","e"," ","O","f","f","i","c","e","r">>,
     <<"B","o","b"," ","R","a","y",","," ","d","i","r","e","c","t","o","r"," ","o","f"," ","t","h","e"," ","d","e","p","a","r","t","m","e","n","t">>,
     <<"M","a","n","a","g","e","r"," ","-"," ","J","o","h","n"," ","M","i","c","h","a","e","l"," ","A","l","e","x","a","n","d","e","r"," ","S","m","i","t","h">>,
     <<"J","a","n","e"," ","W","h","i","t","e","h","e","a","d">>}

StrategySoups ==
    {None,
     Soup(<<>>, <<Container(<<"s","t","a","f","f","-","m","e","m","b","e","r">>,
                            <<Element("h3", <<"J","a","n","e"," ","S","m","i","t","h">>),
                              Element("p", <<"E","x","e","c","u","t","i","v","e"," ","D","i","r","e","c","t","o","r">>)>>)>>)}

StrategyTexts(max) ==
    {Join(lines, <<"\n">>) : lines \in SeqsOf(StrategyLinePool, max)}

InitStrategies ==
    /\ text \in StrategyTexts(MaxStrategyLines)
    /\ soup \in StrategySoups
    /\ contacts = <<>>
    /\ called = "none"
    /\ emails = <<>>
    /\ returned = <<>>
    /\ NoUrlArguments
    /\ NoBatch

\* enhanced_scraper.ContactExtractor().extract_names_with_titles(text, soup);
\* contacts is the list the strategies built, each candidate with its
\* strategy, returned the deduplicated list
ES_RunStrategies ==
    /\ called = "none"
    /\ contacts' = ES_tagged_candidates(text, soup)
    /\ returned' = ES_unique(Untagged(contacts'))
    /\ called' = "enhanced_scraper.strategies"
    /\ UNCHANGED <<text, soup, emails>>
    /\ UNCHANGED <<urlVars, webVars, crawlVars>>

NextStrategies == ES_RunStrategies

SpecStrategies == InitStrategies /\ [][NextStrategies]_vars

\* the priority the strategies are given: structured HTML first, then line
\* adjacency, then inline punctuation
StrategyRank(strategy) ==
    CASE strategy = "structured" -> 1
      [] strategy = "adjacency" -> 2
      [] strategy = "inline" -> 3

\* the candidates of cs with the name key of c
SameKey(cs, c) == {n \in 1..Len(cs) : ES_name_key(cs[n].name) = ES_name_key(c.name)}

\* C22: in the list extract_names_with_titles builds before it
\* deduplicates, every structured-HTML candidate precedes every
\* line-adjacency candidate and every line-adjacency candidate precedes every
\* inline-punctuation candidate, so that of two candidates of one name the
\* record kept is the one of the strategy of higher priority
C22_StrategiesInPriorityOrder ==
    called = "enhanced_scraper.strategies" =>
        /\ \A m, n \in 1..Len(contacts) :
              m < n => StrategyRank(contacts[m].strategy) <= StrategyRank(contacts[n].strategy)
        /\ \A n \in 1..Len(contacts) :
              /\ \E r \in 1..Len(returned) :
                    returned[r] = Untagged(contacts)[Min(SameKey(contacts, contacts[n]))]
              /\ StrategyRank(contacts[Min(SameKey(contacts, contacts[n]))].strategy)
                    <= StrategyRank(contacts[n].strategy)

\* a word that begins with an upper-case letter followed by lower-case letters
IsCapitalisedWord(w) ==
    /\ Len(w) >= 2
    /\ IsUpper(w[1])
    /\ \A n \in 2..Len(w) : IsLower(w[n])

\* two to four such words
IsCapitalisedName(words) ==
    /\ Len(words) \in 2..4
    /\ \A n \in 1..Len(words) : IsCapitalisedWord(words[n])

\* where name occurs in line it goes on with one more capitalised word
GoesOnAt(line, e) ==
    /\ e + 2 <= Len(line)
    /\ IsSpace(line[e])
    /\ IsUpper(line[e + 1])
    /\ IsLower(line[e + 2])

CutShort(line, name) ==
    \E q \in 1..Len(line) : MatchesAt(line, name, q) /\ GoesOnAt(line, q + Len(name))

\* the lines of the text
TextLines == SplitOn(text, "\n")

\* C23: the name of every candidate of the inline-punctuation patterns is
\* two to four words, each an upper-case letter followed by lower-case
\* letters: a lower-case word sequence after a title word is never a name,
\* and a capitalised name of up to four words is captured whole
C23_InlineNamesCapitalised ==
    called = "enhanced_scraper.strategies" =>
        \A n \in 1..Len(contacts) :
            contacts[n].strategy = "inline" =>
                /\ IsCapitalisedName(SplitOn(contacts[n].name, " "))
                /\ Len(SplitOn(contacts[n].name, " ")) < 4 =>
                      ~CutShort(TextLines[contacts[n].line_no], contacts[n].name)

\* the lines that emit a line-adjacency candidate
AdjacencyLines ==
    {contacts[n].line_no : n \in {k \in 1..Len(contacts) : contacts[k].strategy = "adjacency"}}

\* line i passes _looks_like_name and line i + 1 holds a word of the title
\* vocabulary
NameThenTitle(lines, n) ==
    /\ n < Len(lines)
    /\ _looks_like_name(Strip(lines[n]))
    /\ HasTargetTitle(StrLower(lines[n + 1]))

\* a line of the title vocabulary followed by a line that is a name
TitleThenName(lines, n) ==
    /\ n < Len(lines)
    /\ HasTargetTitle(StrLower(lines[n]))
    /\ _looks_like_name(Strip(lines[n + 1]))

\* C24: the line-adjacency strategy emits a candidate for line i exactly
\* when the stripped line i passes _looks_like_name and line i + 1 holds a
\* title of the vocabulary, whatever its case; its name is line i and its
\* title the stripped line i + 1; a title line followed by a name line
\* yields no such candidate, nor does the last line of the text
C24_LineAdjacency ==
    called = "enhanced_scraper.strategies" =>
        /\ AdjacencyLines = {n \in 1..Len(TextLines) : NameThenTitle(TextLines, n)}
        /\ \A n \in 1..Len(contacts) :
              contacts[n].strategy = "adjacency" =>
                 /\ contacts[n].name = Strip(TextLines[contacts[n].line_no])
                 /\ contacts[n].title = Strip(TextLines[contacts[n].line_no + 1])
        /\ \A n \in 1..Len(TextLines) :
              TitleThenName(TextLines, n) => n \notin AdjacencyLines
        /\ Len(TextLines) \notin AdjacencyLines

(***************************************************************************)
(* The site candidates of get_county_patterns.                             *)
(***************************************************************************)
\* the words of ws other than 'county', one after the other
RECURSIVE WithoutCounty(_)
WithoutCounty(ws) ==
    IF ws = <<>> THEN <<>>
    ELSE (IF Head(ws) = <<"c","o","u","n","t","y">> THEN <<>> ELSE Head(ws)) \o WithoutCounty(Tail(ws))

\* the name lower-cased, without the word 'county' and without whitespace
NameComponent(name) == WithoutCounty(WordsFrom(StrLower(name), 1))

\* the six generic patterns of a name component and a lower-cased state
GenericCandidates(c, region) ==
    <<<<"h","t","t","p","s",":","/","/">> \o c \o <<"c","o","u","n","t","y">> \o region \o <<".","g","o","v">>,
      <<"h","t","t","p","s",":","/","/","w","w","w",".">> \o c \o <<"c","o","u","n","t","y">> \o region \o <<".","g","o","v">>,
      <<"h","t","t","p","s",":","/","/">> \o c \o region \o <<".","g","o","v">>,
      <<"h","t","t","p","s",":","/","/","w","w","w",".">> \o c \o region \o <<".","g","o","v">>,
      <<"h","t","t","p","s",":","/","/","w","w","w",".","c","o",".">> \o c \o <<".">> \o region \o <<".","u","s">>,
      <<"h","t","t","p","s",":","/","/","c","o",".">> \o c \o <<".">> \o region \o <<".","u","s">>>>

\* C25: the name component of every site candidate is the county name
\* lower-cased, with the word 'county' and all whitespace removed: it has
\* no whitespace, no upper-case letter and no word 'county' left over
C25_NameComponent ==
    called = "get_county_patterns" =>
        /\ \A n \in 1..Len(NameComponent(county_name)) :
              ~IsSpace(NameComponent(county_name)[n]) /\ ~IsUpper(NameComponent(county_name)[n])
        /\ \E m \in 0..1 :
              SubSeq(returned, m + 1, Len(returned))
                 = GenericCandidates(NameComponent(county_name), StrLower(state))

\* C26: the candidate '<name>countymd.gov' of Maryland is in the list if and
\* only if the state code is MD, and is then the first of the list; for any
\* other state code the list is the six generic patterns, in their order
C26_RegionCandidateOnlyForMD ==
    called = "get_county_patterns" =>
        IF state = <<"M","D">>
        THEN returned = <<<<"h","t","t","p","s",":","/","/">> \o clean_name(county_name) \o <<"c","o","u","n","t","y","m","d",".","g","o","v">>>>
                        \o GenericCandidates(clean_name(county_name), StrLower(state))
        ELSE returned = GenericCandidates(clean_name(county_name), StrLower(state))

\* the list of a county of Maryland, its own pattern first
C26_Witness ==
    /\ called = "get_county_patterns"
    /\ state = <<"M","D">>
    /\ county_name = <<"P","r","i","n","c","e"," ","G","e","o","r","g","e","'","s"," ","C","o","u","n","t","y">>
    /\ Len(returned) = 7
    /\ returned[1] = <<"h","t","t","p","s",":","/","/","p","r","i","n","c","e","g","e","o","r","g","e","'","s","c","o","u","n","t","y","m","d",".","g","o","v">>

\* C27: the requests of a generator are separated by its delay: between
\* any two consecutive HTTP requests, those of failed URL trials in
\* find_county_website and scrape_for_departments included,
\* time.sleep(self.delay) takes place
C27_DelayBetweenRequests ==
    generator = "lead_generator_v2" =>
        \A m, n \in 1..Len(log) :
            (m < n /\ log[m].op = "get" /\ log[n].op = "get") =>
                \E k \in (m + 1)..(n - 1) : log[k].op = "sleep"

(***************************************************************************)
(* The intermediate exports of run.                                        *)
(***************************************************************************)
\* the positions in exports of the intermediate exports
IntermediateExports == {n \in 1..Len(exports) : exports[n].file # "final"}

\* the counties after which an intermediate export is due: those at a
\* multiple of 5 in the list whose processing returned
DueAfter == {n \in 1..Len(outcomes) : n % 5 = 0 /\ outcomes[n] = "returned"}

\* the number of the first n counties whose processing returned
ReturnedAmong(n) == Cardinality({m \in 1..n : outcomes[m] = "returned"})

\* one intermediate export after each county it is due after, made as soon
\* as the county was appended
C28_ExportsWhenDue ==
    /\ {exports[n].after : n \in IntermediateExports}
          = DueAfter \ (IF pc = "intermediate_export" THEN {county_no} ELSE {})
    /\ \A m, n \in IntermediateExports : exports[m].after = exports[n].after => m = n

\* an intermediate export holds every county processed without exception so
\* far, and these stay in all_data whether the export succeeded or not
C28_ExportsAllSoFar ==
    \A n \in IntermediateExports :
        /\ Len(exports[n].data) = ReturnedAmong(exports[n].after)
        /\ Len(exports[n].data) <= Len(all_data)
        /\ exports[n].data = SubSeq(all_data, 1, Len(exports[n].data))

\* the intermediate export, failed or not, leaves all_data as it is and run
\* in its loop
C28_ExportStep ==
    pc = "intermediate_export" =>
        /\ pc' = "run"
        /\ all_data' = all_data
        /\ outcomes' = outcomes
        /\ Len(exports') = Len(exports) + 1

\* C28: run makes an intermediate export after the i-th county of the list
\* exactly when i is a multiple of 5 and that county was processed without
\* exception; the file holds every county processed without exception so
\* far; a failure of the export is caught, the county appended before it is
\* kept and the batch goes on
C28_IntermediateExport ==
    /\ [](C28_ExportsWhenDue /\ C28_ExportsAllSoFar)
    /\ [][C28_ExportStep]_vars

\* the export after the fifth county failed, a county before it had raised,
\* and the final export has the counties that were appended
C28_Witness ==
    /\ generator = "lead_generator_v2"
    /\ pc = "done"
    /\ Len(exports) = 2
    /\ exports[1].file = "progress" /\ exports[1].after = 5 /\ ~exports[1].ok
    /\ \E n \in 1..4 : outcomes[n] = "raised"
    /\ exports[2].data = exports[1].data
    /\ Len(exports[2].data) = 4


(***************************************************************************)
(* The two results of process_county (v2).                                 *)
(***************************************************************************)
\* the requests scrape_for_departments has made, of both loops
DepartmentRequests ==
    SelectSeq(log, LAMBDA e : e.op = "get" /\ e.phase \in {"direct", "link"})

\* the result of a county whose website was not found
WithoutWebsite(cd) ==
    /\ cd.county_website = NoUrl
    /\ cd.departments = <<>>
    /\ cd.manual_research_needed = <<"County Website">>

\* the result of a county whose website was found
WithWebsite(cd) ==
    /\ cd.county_website # NoUrl
    /\ Len(cd.departments) = 6
    /\ \A n \in 1..Len(cd.departments) : cd.departments[n].name = dept_types[n][2]
    /\ cd.has_general_emails
    /\ cd.manual_research_needed
          = <<"Retirement Communities", "Hospitals", "Chamber of Commerce">>

\* process_county has just returned county_data for the county attempted
\* last, whose requests the log has
JustReturned ==
    /\ county_no > 0
    /\ Len(outcomes) = county_no
    /\ outcomes[county_no] = "returned"

\* C29: process_county (v2) returns one of two shapes: if no site candidate
\* succeeded, county_website is None, departments is empty, no department
\* URL was requested and manual_research_needed has the one item 'County
\* Website'; otherwise county_website is the successful URL, departments has
\* the six category entries, general_emails is set and
\* manual_research_needed has the three items Retirement Communities,
\* Hospitals, Chamber of Commerce
C29_TwoShapes ==
    generator = "lead_generator_v2" =>
        /\ \A n \in 1..Len(all_data) :
              WithoutWebsite(all_data[n]) \/ WithWebsite(all_data[n])
        /\ JustReturned =>
              /\ Len(all_data) > 0
              /\ county_data = all_data[Len(all_data)]
              /\ IF Succeeded(SiteRequests)
                 THEN /\ WithWebsite(county_data)
                      /\ county_data.county_website
                            = SiteRequests[Len(SiteRequests)].url
                 ELSE /\ WithoutWebsite(county_data)
                      /\ Len(DepartmentRequests) = 0

\* the first county was returned with its website and a department that was
\* found, the second after each of its site candidates had failed
C29_Witness ==
    /\ generator = "lead_generator_v2"
    /\ JustReturned
    /\ Len(all_data) = 2
    /\ WithWebsite(all_data[1])
    /\ all_data[1].departments[1].entry.found
    /\ WithoutWebsite(all_data[2])
    /\ Len(SiteRequests) > 1
    /\ ~Succeeded(SiteRequests)


(***************************************************************************)
(* The two loops of scrape_for_departments.                                *)
(***************************************************************************)
\* the requests the loop over the links has made for department number n
LinkRequests(n) ==
    SelectSeq(log, LAMBDA e : e.op = "get" /\ e.phase = "link" /\ e.dept = n)

\* the requests made for department number n, of both loops
RequestsFor(n) ==
    SelectSeq(log, LAMBDA e : e.op = "get" /\ e.dept = n
                                /\ e.phase \in {"direct", "link"})

\* the URLs of the links ls
LinkUrls(ls) == [k \in 1..Len(ls) |-> UrlJoin(county_url, ls[k].href)]

\* the URLs of the links of the main page whose text names department number
\* n, in document order
LinkCandidates(n) ==
    LinkUrls(SelectSeq(PageOf(county_url).links,
                       LAMBDA l : LinkMatches(l, dept_types[n])))

\* the requests of department number n: direct those of the direct URLs,
\* links those of the links, reqs all of them
C30_Department(n, direct, links, reqs) ==
    Len(reqs) > 0 =>
        /\ reqs = direct \o links
        /\ Len(links) > 0 =>
              /\ Len(direct) = Len(DepartmentPatternsOf[county_url][n])
              /\ \A k \in 1..Len(direct) : ~direct[k].ok
              /\ InRankOrder(links, LinkCandidates(n))
        /\ \A k \in 1..Len(reqs) : reqs[k].ok => k = Len(reqs)
        /\ n <= Len(departments) =>
              /\ departments[n].entry.found <=> Succeeded(reqs)
              /\ departments[n].entry.found =>
                    departments[n].entry.url = reqs[Len(reqs)].url

=============================================================================
